---- MODULE Spec2Model ----
(***************************************************************************)
(* Scalar reverse-mode autograd engine of microgpt-cpp: the Value node,    *)
(* the ValueStorage arena and its factory methods, Value::backward with    *)
(* build_topo, and the call sites that build graphs with them.             *)
(*                                                                         *)
(* Objects live at addresses 1, 2, 3, ...; `mem` holds the bytes at every  *)
(* address ever handed out and `live` the addresses whose object is within *)
(* its lifetime.  A Value* is an address; 0 is the null pointer.           *)
(*                                                                         *)
(* A double is modelled as an exact rational [n, d] in lowest terms with   *)
(* d > 0, or as one of the non-finite values +inf = [1,0], -inf = [-1,0],  *)
(* NaN = [0,0].  The format is binary floating point with a short mantissa *)
(* and a small exponent range: every arithmetic result is rounded to the   *)
(* nearest representable value, ties to even, and becomes +-inf beyond     *)
(* DBL_MAX.                                                                *)
(***************************************************************************)
EXTENDS Integers, Sequences, FiniteSets, TLC

(***************************************************************************)
(* double                                                                  *)
(***************************************************************************)
Abs(i) == IF i < 0 THEN -i ELSE i

\* the expression K of a local variable with the value v
With(v, K(_)) == K(v)

RECURSIVE GCD(_, _)
GCD(a, b) == IF b = 0 THEN a ELSE GCD(b, a % b)

R(n, d) ==
    LET g == GCD(Abs(n), Abs(d)) * (IF d < 0 THEN -1 ELSE 1)
    IN  IF d = 0 THEN [n |-> (IF n > 0 THEN 1 ELSE IF n < 0 THEN -1 ELSE 0), d |-> 0]
        ELSE [n |-> n \div g, d |-> d \div g]

Zero   == [n |-> 0, d |-> 1]
One    == [n |-> 1, d |-> 1]
PosInf == [n |-> 1, d |-> 0]
NegInf == [n |-> -1, d |-> 0]
NaN    == [n |-> 0, d |-> 0]

\* the format of a double, scaled down: a finite double is m * 2^e with
\* |m| < 2^MANT_DIG and MIN_EXP <= e <= MAX_EXP
MANT_DIG == 4
MAX_EXP  == 5
MIN_EXP  == -10

\* std::numeric_limits<double>::max()
DBL_MAX == R((2^MANT_DIG - 1) * 2^MAX_EXP, 1)
\* std::numeric_limits<double>::denorm_min()
DBL_TRUE_MIN == R(1, 2^(-MIN_EXP))
\* std::numeric_limits<double>::epsilon()
DBL_EPSILON == R(1, 2^(MANT_DIG - 1))
\* the largest argument Value::exp / ValueStorage::exp accept (700.0), scaled down
EXP_MAX_ARG == R(7, 1)

isfinite(x) == x.d # 0
isnan(x)    == x.n = 0 /\ x.d = 0
Sign(x)     == IF x.n > 0 THEN 1 ELSE IF x.n < 0 THEN -1 ELSE 0

\* a < b on doubles; every comparison with NaN is false
Lt(a, b) ==
    IF isnan(a) \/ isnan(b) THEN FALSE
    ELSE IF isfinite(a) /\ isfinite(b) THEN a.n * b.d < b.n * a.d
    ELSE IF ~isfinite(a) /\ ~isfinite(b) THEN a.n < b.n
    ELSE IF ~isfinite(a) THEN a.n < 0
    ELSE b.n > 0
Gt(a, b) == Lt(b, a)
Le(a, b) == ~isnan(a) /\ ~isnan(b) /\ ~Lt(b, a)

\* 2^e as numerator and denominator
UlpN(e) == IF e >= 0 THEN 2^e ELSE 1
UlpD(e) == IF e >= 0 THEN 1 ELSE 2^(-e)

\* the exponent of the double nearest to an / d > 0: the least e from e0 on
\* with an / d < 2^MANT_DIG * 2^e (e0 is MIN_EXP, or 1 - MANT_DIG, the
\* exponent of 1.0, when an / d >= 1)
Exponent(an, d, e0) ==
    CHOOSE e \in e0..(e0 + 2 * (MAX_EXP - MIN_EXP)) :
        /\ an * UlpD(e) < 2^MANT_DIG * d * UlpN(e)
        /\ e > e0 => an * UlpD(e - 1) >= 2^MANT_DIG * d * UlpN(e - 1)

\* m / 2^q, m # 0, in lowest terms
Dyadic(m, q) ==
    LET t == CHOOSE t \in 0..q : m % 2^t = 0 /\ (t = q \/ m % 2^(t + 1) # 0)
    IN  [n |-> m \div 2^t, d |-> 2^(q - t)]

\* the exact result x of an operation (a fraction, not necessarily in lowest
\* terms) as the double the operation returns: rounded to nearest, ties to
\* even; beyond DBL_MAX an infinity
ToDouble(x) ==
    IF ~isfinite(x) THEN x
    ELSE IF x.n = 0 THEN Zero
    ELSE With(Exponent(Abs(x.n), x.d, IF Abs(x.n) >= x.d THEN 1 - MANT_DIG ELSE MIN_EXP),
              LAMBDA e :
         LET N  == Abs(x.n) * UlpD(e)
             D  == x.d * UlpN(e)
             m0 == N \div D
             r  == N % D
             m  == IF 2 * r > D \/ (2 * r = D /\ m0 % 2 = 1) THEN m0 + 1 ELSE m0
         IN  IF m * UlpN(e) * DBL_MAX.d > DBL_MAX.n * UlpD(e)
             THEN (IF x.n > 0 THEN PosInf ELSE NegInf)
             ELSE IF e >= 0 THEN [n |-> Sign(x) * m * 2^e, d |-> 1]
             ELSE Dyadic(Sign(x) * m, -e))

\* a + b
Plus(a, b) ==
    IF isnan(a) \/ isnan(b) THEN NaN
    ELSE IF isfinite(a) /\ isfinite(b)
    THEN ToDouble([n |-> a.n * b.d + b.n * a.d, d |-> a.d * b.d])
    ELSE IF ~isfinite(a) /\ ~isfinite(b) THEN (IF a.n = b.n THEN a ELSE NaN)
    ELSE IF ~isfinite(a) THEN a ELSE b

\* a * b
Times(a, b) ==
    IF isnan(a) \/ isnan(b) THEN NaN
    ELSE IF isfinite(a) /\ isfinite(b) THEN ToDouble([n |-> a.n * b.n, d |-> a.d * b.d])
    ELSE IF Sign(a) = 0 \/ Sign(b) = 0 THEN NaN
    ELSE IF Sign(a) * Sign(b) > 0 THEN PosInf ELSE NegInf

\* -a
Minus(a) == [n |-> -a.n, d |-> a.d]

\* 1.0 / a
Recip(a) ==
    IF isnan(a) THEN NaN
    ELSE IF ~isfinite(a) THEN Zero
    ELSE IF a.n = 0 THEN PosInf
    ELSE ToDouble([n |-> Sign(a) * a.d, d |-> Abs(a.n)])

\* a / b
Over(a, b) ==
    IF isnan(a) \/ isnan(b) THEN NaN
    ELSE IF isfinite(a) /\ isfinite(b) /\ b.n # 0
    THEN ToDouble([n |-> Sign(b) * a.n * b.d, d |-> a.d * Abs(b.n)])
    ELSE IF isfinite(a) /\ isfinite(b)
    THEN (IF a.n = 0 THEN NaN ELSE IF a.n > 0 THEN PosInf ELSE NegInf)
    ELSE IF isfinite(a) THEN Zero
    ELSE IF ~isfinite(b) THEN NaN
    ELSE IF Sign(a) * Sign(b) >= 0 THEN a ELSE Minus(a)

\* std::abs
fabs(a) == [n |-> Abs(a.n), d |-> a.d]

\* std::max(0.0, a)
fmax0(a) == IF Lt(Zero, a) THEN a ELSE Zero

\* std::floor(k) != k for a finite k
NonInteger(k) == k.d # 1

\* the exponent of the double nearest to the square root of x > 0: the least
\* e from e0 on with x < (2^MANT_DIG * 2^e)^2
SqrtExponent(x, e0) ==
    CHOOSE e \in e0..(e0 + 2 * (MAX_EXP - MIN_EXP)) :
        /\ x.n * UlpD(e) * UlpD(e) < 4^MANT_DIG * x.d * UlpN(e) * UlpN(e)
        /\ e > e0 => x.n * UlpD(e - 1) * UlpD(e - 1)
                          >= 4^MANT_DIG * x.d * UlpN(e - 1) * UlpN(e - 1)

\* std::sqrt: the double nearest to the square root
std_sqrt(x) ==
    IF isnan(x) \/ x.n < 0 THEN NaN
    ELSE IF ~isfinite(x) \/ x.n = 0 THEN x
    ELSE With(SqrtExponent(x, MIN_EXP), LAMBDA e :
         LET N  == x.n * UlpD(e) * UlpD(e)
             D  == x.d * UlpN(e) * UlpN(e)
             m0 == CHOOSE m \in 0..(2^MANT_DIG - 1) :
                      m * m * D <= N /\ (m + 1) * (m + 1) * D > N
             m  == IF (2 * m0 + 1) * (2 * m0 + 1) * D < 4 * N THEN m0 + 1 ELSE m0
         IN  R(m * UlpN(e), UlpD(e)))

\* a^k for an integer k, by repeated multiplication
RECURSIVE IPow(_, _)
IPow(a, k) ==
    IF k = 0 THEN One
    ELSE IF k > 0 THEN Times(a, IPow(a, k - 1))
    ELSE Recip(IPow(a, -k))

\* the exponents the model computes std::pow for: the multiples of 1/2
PowExact(k) == isfinite(k) /\ k.d \in {1, 2}

\* std::pow(a, k) for such a k (NaN for a negative base and non-integer k)
std_pow(a, k) ==
    IF k.d = 1 THEN IPow(a, k.n)
    ELSE IPow(std_sqrt(a), k.n)

\* std::exp and std::log return the double nearest to a transcendental
\* number; the model uses a rational surrogate with the same sign,
\* monotonicity and fixed points (exp 0 = 1, log 1 = 0, log (exp x) = x).
std_exp(a) ==
    IF isnan(a) THEN NaN
    ELSE IF ~isfinite(a) THEN (IF a.n > 0 THEN PosInf ELSE Zero)
    ELSE IF a.n >= 0 THEN Plus(One, a)
    ELSE Recip(Plus(One, Minus(a)))

std_log(a) ==
    IF isnan(a) \/ Lt(a, Zero) THEN NaN
    ELSE IF a.n = 0 THEN NegInf
    ELSE IF ~isfinite(a) THEN PosInf
    ELSE IF Le(One, a) THEN Plus(a, Minus(One))
    ELSE Plus(One, Minus(Recip(a)))

(***************************************************************************)
(* State                                                                   *)
(***************************************************************************)
VARIABLES
    mem,        \* address -> Value: the bytes of every object ever created
    live,       \* addresses of the objects within their lifetime
    values,     \* ValueStorage::values, as the addresses of its elements
    ndebug,     \* TRUE when the build compiles assert() out
    call,       \* the last operation called, with its arguments
    ret,        \* the Value* it returned (0 when it returned none)
    err,        \* the exception it left with ("none" when it returned)
    pc,         \* where the caller is
    terminal,   \* backward(): this
    topo,       \* backward(): topo, reversed once build_topo is through
    idx,        \* backward(): position of the outer loop in topo
    trace,      \* the nodes the outer loop of the running backward() has processed
    edges,      \* the <<node, operand index>> pairs it has propagated
    history,    \* the terminals of the backward() calls that have returned
    snap,       \* mem as it was when the latest backward() was called
    prev,       \* mem as it was when the backward() before that was called
    budget,     \* bound on the work of the run
    locals      \* the local variables of the caller's stack frame

vars == <<mem, live, values, ndebug, call, ret, err, pc, terminal, topo, idx,
          trace, edges, history, snap, prev, budget, locals>>

NULL == 0

\* a caller without local variables
NoLocals == [at |-> "none"]

\* Value(double data, std::vector<Value*> children, std::vector<double> local_grads)
Value(data, children, local_grads) ==
    [data |-> data, grad |-> Zero, children_ |-> children, local_grads_ |-> local_grads]

\* the view of memory and of the arena a call works on
\* (vec is the std::vector<Value*> a call returns, when it returns one; keys
\* and vals are the caches GPT::forward takes by reference)
Heap == [mem |-> mem, live |-> live, values |-> values, temps |-> {},
         ret |-> NULL, vec |-> <<>>, keys |-> <<>>, vals |-> <<>>, err |-> "none"]

Throw(h, e) == [h EXCEPT !.ret = NULL, !.err = e]
\* a failed assert() ends the process
Abort(h)    == [h EXCEPT !.ret = NULL, !.err = "abort"]
Failed(h)   == h.err # "none"

\* the statements K that follow a call which left h: an exception or a failed
\* assert of the call skips them
Then(h, K(_)) == IF Failed(h) THEN h ELSE K(h)

\* push_back of a std::vector<Value>: when size() has reached capacity()
\* (1, 2, 4, ...) every element moves to new storage and the old storage is
\* freed
vector_push_back(h, v) ==
    LET n == Len(h.values)
        full == n \in {1, 2, 4, 8, 16}
        base == Len(h.mem)
        moved == [i \in 1..n |-> h.mem[h.values[i]]]
    IN  IF ~full
        THEN [h EXCEPT !.mem = Append(h.mem, v),
                       !.live = h.live \cup {base + 1},
                       !.values = Append(h.values, base + 1),
                       !.ret = base + 1]
        ELSE [h EXCEPT !.mem = h.mem \o moved \o <<v>>,
                       !.live = (h.live \ {h.values[i] : i \in 1..n})
                                    \cup {base + i : i \in 1..(n + 1)},
                       !.values = [i \in 1..(n + 1) |-> base + i],
                       !.ret = base + n + 1]

\* std::deque<Value>::push_back: the new element gets storage of its own and
\* no existing element moves
deque_push_back(h, v) ==
    LET p == Len(h.mem) + 1
    IN  [h EXCEPT !.mem = Append(h.mem, v),
                  !.live = h.live \cup {p},
                  !.values = Append(h.values, p),
                  !.ret = p]

\* the asserts of the Value constructors hold for v
Constructible(v) ==
    /\ isfinite(v.data)
    /\ Len(v.children_) = Len(v.local_grads_)
    /\ \A i \in 1..Len(v.children_) : v.children_[i] # NULL

\* ValueStorage::store, together with the asserts of the Value constructor
\* that built its argument
store(h, v) ==
    IF ~ndebug /\ ~Constructible(v) THEN Abort(h)
    ELSE deque_push_back(h, v)

\* a Value constructed on the stack of the running call: an object outside
\* the arena that is destroyed when the full-expression is through
temp(h, v) ==
    IF ~ndebug /\ ~Constructible(v) THEN Abort(h)
    ELSE LET p == Len(h.mem) + 1
         IN  [h EXCEPT !.mem = Append(h.mem, v),
                       !.live = h.live \cup {p},
                       !.temps = h.temps \cup {p},
                       !.ret = p]

\* ValueStorage::constant
constant(h, data) == store(h, Value(data, <<>>, <<>>))

\* ValueStorage::add(Value*, Value*)
add(h, a, b) ==
    LET x == h.mem[a].data
        y == h.mem[b].data
        result == Plus(x, y)
    IN  IF Gt(x, Zero) /\ Gt(y, Zero) /\ Gt(x, Plus(DBL_MAX, Minus(y)))
        THEN Throw(h, "overflow_error")
        ELSE store(h, Value(result, <<a, b>>, <<One, One>>))

\* ValueStorage::add(Value*, double)
add_d(h, a, b) ==
    IF ~ndebug /\ ~isfinite(b) THEN Abort(h)
    ELSE store(h, Value(Plus(h.mem[a].data, b), <<a>>, <<One>>))

\* mul with the two local gradients exchanged
mul_grads_exchanged(h, a, b) ==
    With(Times(h.mem[a].data, h.mem[b].data), LAMBDA result :
    IF ~ndebug /\ ~isfinite(result) THEN Abort(h)
    ELSE store(h, Value(result, <<a, b>>, <<h.mem[a].data, h.mem[b].data>>)))

\* ValueStorage::mul(Value*, Value*)
mul(h, a, b) ==
    With(Times(h.mem[a].data, h.mem[b].data), LAMBDA result :
    IF ~ndebug /\ ~isfinite(result) THEN Abort(h)
    ELSE store(h, Value(result, <<a, b>>, <<h.mem[b].data, h.mem[a].data>>)))

\* ValueStorage::mul(Value*, double)
mul_d(h, a, b) ==
    With(Times(h.mem[a].data, b), LAMBDA result :
    IF ~ndebug /\ (~isfinite(b) \/ ~isfinite(result)) THEN Abort(h)
    ELSE store(h, Value(result, <<a>>, <<b>>)))

\* neg as a multiplication by +1
neg_times_one(h, a) == mul_d(h, a, One)

\* ValueStorage::neg
neg(h, a) == mul_d(h, a, Minus(One))

\* sub with the pointer to the negation taken from values.back() after add
\* has stored its node
sub_late_back(h, a, b) ==
    Then(neg(h, b), LAMBDA h1 :
    Then(add(h1, a, h1.ret), LAMBDA h2 :
    [h2 EXCEPT !.mem[h2.ret].children_ = <<a, h2.ret>>]))

\* sub with the negation built as a Value on the stack
sub_stack_neg(h, a, b) ==
    Then(temp(h, Value(Times(h.mem[b].data, Minus(One)), <<b>>, <<Minus(One)>>)),
         LAMBDA h1 : add(h1, a, h1.ret))

\* ValueStorage::sub(Value*, Value*)
sub(h, a, b) == Then(neg(h, b), LAMBDA h1 : add(h1, a, h1.ret))

\* ValueStorage::sub(Value*, double)
sub_d(h, a, b) == add_d(h, a, Minus(b))

\* ValueStorage::pow
pow(h, a, exponent) ==
    With(h.mem[a].data, LAMBDA x :
    IF ~ndebug /\ ~isfinite(exponent) THEN Abort(h)
    ELSE IF Lt(x, Zero) /\ NonInteger(exponent)
    THEN Throw(h, "domain_error")
    ELSE IF x = Zero /\ Lt(exponent, Zero)
    THEN Throw(h, "domain_error")
    ELSE With(std_pow(x, exponent), LAMBDA result :
         With(Times(exponent, std_pow(x, Plus(exponent, Minus(One)))), LAMBDA local_grad :
         IF ~ndebug /\ (~isfinite(result) \/ ~isfinite(local_grad)) THEN Abort(h)
         ELSE store(h, Value(result, <<a>>, <<local_grad>>)))))

\* ValueStorage::div(Value*, Value*)
div(h, a, b) ==
    IF Lt(fabs(h.mem[b].data), DBL_EPSILON)
    THEN Throw(h, "domain_error")
    ELSE Then(pow(h, b, Minus(One)), LAMBDA h1 : mul(h1, a, h1.ret))

\* ValueStorage::div(Value*, double)
div_d(h, a, b) ==
    IF Lt(fabs(b), DBL_EPSILON) THEN Throw(h, "domain_error")
    ELSE IF ~ndebug /\ ~isfinite(b) THEN Abort(h)
    ELSE mul_d(h, a, Recip(b))

\* log with the domain check after the node has been stored
log_checked_late(h, a) ==
    Then(store(h, Value(std_log(h.mem[a].data), <<a>>, <<Recip(h.mem[a].data)>>)),
         LAMBDA h1 : IF Le(h.mem[a].data, Zero) THEN Throw(h1, "domain_error") ELSE h1)

\* ValueStorage::log
log(h, a) ==
    With(h.mem[a].data, LAMBDA x :
    IF Le(x, Zero) THEN Throw(h, "domain_error")
    ELSE With(std_log(x), LAMBDA result :
         IF ~ndebug /\ ~isfinite(result) THEN Abort(h)
         ELSE store(h, Value(result, <<a>>, <<Recip(x)>>))))

\* ValueStorage::exp
exp(h, a) ==
    With(h.mem[a].data, LAMBDA x :
    IF Gt(x, EXP_MAX_ARG) THEN Throw(h, "overflow_error")
    ELSE With(std_exp(x), LAMBDA result :
         IF ~ndebug /\ ~isfinite(result) THEN Abort(h)
         ELSE store(h, Value(result, <<a>>, <<result>>))))

\* relu with the local gradient left out of the node
relu_no_grad(h, a) == store(h, Value(fmax0(h.mem[a].data), <<a>>, <<>>))

\* ValueStorage::relu
relu(h, a) ==
    LET x == h.mem[a].data
        result == fmax0(x)
        local_grad == IF Gt(x, Zero) THEN One ELSE Zero
    IN  store(h, Value(result, <<a>>, <<local_grad>>))

\* ValueStorage::clear: every element is destroyed
clear(h) ==
    [h EXCEPT !.live = h.live \ {h.values[i] : i \in 1..Len(h.values)},
              !.values = <<>>, !.ret = NULL]

\* ValueStorage::size
size(h) == Len(h.values)

(***************************************************************************)
(* softmax, rmsnorm, linear.  The doubles of the model have 4 binary       *)
(* digits, so the thresholds of the layers are scaled to that precision.   *)
(***************************************************************************)
\* 1e-6, the tolerance of softmax on the sum of the probabilities
SOFTMAX_TOL == R(1, 4)
\* 1e-5, the epsilon rmsnorm adds to the mean square
RMS_EPS     == R(1, 64)
\* 1e10, the largest scale rmsnorm accepts
RMS_SCALE_MAX == R(256, 1)

\* the data of the elements of a std::vector<Value*>
Data(h, x) == [i \in 1..Len(x) |-> h.mem[x[i]].data]

AllFinite(h, x) == \A i \in 1..Len(x) : isfinite(h.mem[x[i]].data)

\* softmax: the search for the largest logit, from logit i on
RECURSIVE softmax_max(_, _, _, _)
softmax_max(h, logits, i, max_val) ==
    IF i > Len(logits) THEN max_val
    ELSE softmax_max(h, logits, i + 1,
                     IF Gt(h.mem[logits[i]].data, max_val)
                     THEN h.mem[logits[i]].data ELSE max_val)

\* softmax: the loop that fills exps and total, from logit i on
RECURSIVE softmax_exps(_, _, _, _, _, _)
softmax_exps(h, logits, max_val_node, i, exps, total) ==
    IF i > Len(logits) THEN [h EXCEPT !.vec = exps, !.ret = total]
    ELSE Then(sub(h, logits[i], max_val_node), LAMBDA h1 :
         Then(exp(h1, h1.ret), LAMBDA h2 :
         Then(add(h2, total, h2.ret), LAMBDA h3 :
         softmax_exps(h3, logits, max_val_node, i + 1, Append(exps, h2.ret), h3.ret))))

\* softmax: the loop that fills probs and prob_sum, from exps[i] on
RECURSIVE softmax_probs(_, _, _, _, _, _)
softmax_probs(h, exps, total_inv, i, probs, prob_sum) ==
    IF i > Len(exps)
    THEN (IF ~ndebug /\ ~Lt(fabs(Plus(prob_sum, Minus(One))), SOFTMAX_TOL)
          THEN Abort(h)
          ELSE [h EXCEPT !.vec = probs, !.ret = NULL])
    ELSE Then(mul(h, exps[i], total_inv), LAMBDA h1 :
         softmax_probs(h1, exps, total_inv, i + 1, Append(probs, h1.ret),
                       Plus(prob_sum, h1.mem[h1.ret].data)))

\* softmax(logits, storage)
softmax(h, logits) ==
    IF ~ndebug /\ (logits = <<>> \/ ~AllFinite(h, logits)) THEN Abort(h)
    ELSE Then(constant(h, softmax_max(h, logits, 1, h.mem[logits[1]].data)), LAMBDA h1 :
         Then(constant(h1, Zero), LAMBDA h2 :
         Then(softmax_exps(h2, logits, h1.ret, 1, <<>>, h2.ret), LAMBDA h3 :
         IF Lt(h3.mem[h3.ret].data, DBL_EPSILON) THEN Throw(h3, "runtime_error")
         ELSE Then(pow(h3, h3.ret, Minus(One)), LAMBDA h4 :
              softmax_probs(h4, h3.vec, h4.ret, 1, <<>>, Zero)))))

\* rmsnorm: the loop that sums the squares, from x[i] on
RECURSIVE rmsnorm_ms(_, _, _, _)
rmsnorm_ms(h, x, i, ms) ==
    IF i > Len(x) THEN [h EXCEPT !.ret = ms]
    ELSE Then(mul(h, x[i], x[i]), LAMBDA h1 :
         Then(add(h1, ms, h1.ret), LAMBDA h2 :
         rmsnorm_ms(h2, x, i + 1, h2.ret)))

\* rmsnorm: the loop that scales, from x[i] on
RECURSIVE rmsnorm_result(_, _, _, _, _)
rmsnorm_result(h, x, scale, i, result) ==
    IF i > Len(x) THEN [h EXCEPT !.vec = result, !.ret = NULL]
    ELSE Then(mul(h, x[i], scale), LAMBDA h1 :
         rmsnorm_result(h1, x, scale, i + 1, Append(result, h1.ret)))

\* rmsnorm(x, storage)
rmsnorm(h, x) ==
    IF ~ndebug /\ (x = <<>> \/ ~AllFinite(h, x)) THEN Abort(h)
    ELSE Then(constant(h, Zero), LAMBDA h1 :
         Then(rmsnorm_ms(h1, x, 1, h1.ret), LAMBDA h2 :
         Then(constant(h2, ToDouble(R(Len(x), 1))), LAMBDA h3 :
         Then(div(h3, h2.ret, h3.ret), LAMBDA h4 :
         Then(constant(h4, RMS_EPS), LAMBDA h5 :
         Then(add(h5, h4.ret, h5.ret), LAMBDA h6 :
         IF Le(h6.mem[h6.ret].data, Zero) THEN Throw(h6, "domain_error")
         ELSE Then(pow(h6, h6.ret, R(-1, 2)), LAMBDA h7 :
              IF ~isfinite(h7.mem[h7.ret].data)
                 \/ Gt(fabs(h7.mem[h7.ret].data), RMS_SCALE_MAX)
              THEN Throw(h7, "runtime_error")
              ELSE rmsnorm_result(h7, x, h7.ret, 1, <<>>))))))))

\* linear: the inner loop over the weights of the row wo, from wo[i] on
RECURSIVE linear_row(_, _, _, _, _)
linear_row(h, x, wo, i, sum) ==
    IF i > Len(x) THEN [h EXCEPT !.ret = sum]
    ELSE IF ~ndebug /\ ~isfinite(h.mem[wo[i]].data) THEN Abort(h)
    ELSE Then(mul(h, wo[i], x[i]), LAMBDA h1 :
         Then(add(h1, sum, h1.ret), LAMBDA h2 :
         linear_row(h2, x, wo, i + 1, h2.ret)))

\* linear: the outer loop over the rows of w, from w[j] on
RECURSIVE linear_rows(_, _, _, _, _)
linear_rows(h, x, w, j, result) ==
    IF j > Len(w) THEN [h EXCEPT !.vec = result, !.ret = NULL]
    ELSE Then(constant(h, Zero), LAMBDA h1 :
         Then(linear_row(h1, x, w[j], 1, h1.ret), LAMBDA h2 :
         IF ~isfinite(h2.mem[h2.ret].data) THEN Throw(h2, "runtime_error")
         ELSE linear_rows(h2, x, w, j + 1, Append(result, h2.ret))))

\* linear(x, w, storage); w holds the addresses of the Values of the matrix
linear(h, x, w) ==
    IF ~ndebug /\ (x = <<>> \/ w = <<>>) THEN Abort(h)
    ELSE IF \E j \in 1..Len(w) : Len(w[j]) # Len(x) THEN Throw(h, "invalid_argument")
    ELSE IF ~ndebug /\ ~AllFinite(h, x) THEN Abort(h)
    ELSE linear_rows(h, x, w, 1, <<>>)

(***************************************************************************)
(* The members of Value that return a Value by value.  The object a call   *)
(* returns is a temporary of the calling expression.                       *)
(***************************************************************************)
\* the end of the lifetime of the temporary at p
destroy(h, p) == [h EXCEPT !.live = h.live \ {p}, !.temps = h.temps \ {p}]

\* ValueStorage::store(Value&&) on the temporary at t: the new element is
\* move-constructed, which leaves the vectors of the temporary empty
store_moved(h, t) ==
    Then(store(h, h.mem[t]), LAMBDA h1 :
    [h1 EXCEPT !.mem[t].children_ = <<>>, !.mem[t].local_grads_ = <<>>])

\* operator+ with this as both operands of the result
operator_add_this_twice(h, a, b) ==
    LET x == h.mem[a].data
        y == h.mem[b].data
    IN  IF Gt(x, Zero) /\ Gt(y, Zero) /\ Gt(x, Plus(DBL_MAX, Minus(y)))
        THEN Throw(h, "overflow_error")
        ELSE IF Lt(x, Zero) /\ Lt(y, Zero) /\ Lt(x, Plus(Minus(DBL_MAX), Minus(y)))
        THEN Throw(h, "underflow_error")
        ELSE temp(h, Value(Plus(x, y), <<a, a>>, <<One, One>>))

\* Value::operator+(const Value&)
operator_add(h, a, b) ==
    LET x == h.mem[a].data
        y == h.mem[b].data
    IN  IF Gt(x, Zero) /\ Gt(y, Zero) /\ Gt(x, Plus(DBL_MAX, Minus(y)))
        THEN Throw(h, "overflow_error")
        ELSE IF Lt(x, Zero) /\ Lt(y, Zero) /\ Lt(x, Plus(Minus(DBL_MAX), Minus(y)))
        THEN Throw(h, "underflow_error")
        ELSE temp(h, Value(Plus(x, y), <<a, b>>, <<One, One>>))

\* Value::operator*(const Value&)
operator_mul(h, a, b) ==
    With(Times(h.mem[a].data, h.mem[b].data), LAMBDA result :
    IF ~ndebug /\ ~isfinite(result) THEN Abort(h)
    ELSE temp(h, Value(result, <<a, b>>, <<h.mem[b].data, h.mem[a].data>>)))

\* Value::operator*(double)
operator_mul_d(h, a, other) ==
    With(Times(h.mem[a].data, other), LAMBDA result :
    IF ~ndebug /\ (~isfinite(other) \/ ~isfinite(result)) THEN Abort(h)
    ELSE temp(h, Value(result, <<a>>, <<other>>)))

\* Value::operator-(): return (*this) * -1.0
operator_neg(h, a) == operator_mul_d(h, a, Minus(One))

\* Value::pow(double)
Value_pow(h, a, exponent) ==
    With(h.mem[a].data, LAMBDA x :
    IF ~ndebug /\ ~isfinite(exponent) THEN Abort(h)
    ELSE IF Lt(x, Zero) /\ NonInteger(exponent)
    THEN Throw(h, "domain_error")
    ELSE IF x = Zero /\ Lt(exponent, Zero)
    THEN Throw(h, "domain_error")
    ELSE With(std_pow(x, exponent), LAMBDA result :
         With(Times(exponent, std_pow(x, Plus(exponent, Minus(One)))), LAMBDA local_grad :
         IF ~ndebug /\ (~isfinite(result) \/ ~isfinite(local_grad)) THEN Abort(h)
         ELSE temp(h, Value(result, <<a>>, <<local_grad>>)))))

\* Value::operator/(const Value&): return (*this) * other.pow(-1); the
\* Value pow returns is destroyed when the return statement is through
operator_div(h, a, b) ==
    IF Lt(fabs(h.mem[b].data), DBL_EPSILON)
    THEN Throw(h, "domain_error")
    ELSE Then(Value_pow(h, b, Minus(One)), LAMBDA h1 :
         destroy(operator_mul(h1, a, h1.ret), h1.ret))

\* Value::log()
Value_log(h, a) ==
    With(h.mem[a].data, LAMBDA x :
    IF Le(x, Zero) THEN Throw(h, "domain_error")
    ELSE With(std_log(x), LAMBDA result :
         IF ~ndebug /\ ~isfinite(result) THEN Abort(h)
         ELSE temp(h, Value(result, <<a>>, <<Recip(x)>>))))

(***************************************************************************)
(* GPT::forward.  Config is the one of examples/train.cpp scaled down to   *)
(* one embedding dimension, one head and a block of two positions; `w` is  *)
(* state_dict.weights, as the addresses of the Values of each matrix.      *)
(***************************************************************************)
vocab_size == 2
n_embd     == 1
n_head     == 1
n_layer    == 1
block_size == 2

\* storage.check_size_limit(100000)
SIZE_LIMIT == 100000

\* the loop that fills x with tok_emb[i] + pos_emb[i], from i on
RECURSIVE forward_embed(_, _, _, _, _)
forward_embed(h, tok_emb, pos_emb, i, x) ==
    IF i > n_embd THEN [h EXCEPT !.vec = x, !.ret = NULL]
    ELSE Then(add(h, tok_emb[i], pos_emb[i]), LAMBDA h1 :
         forward_embed(h1, tok_emb, pos_emb, i + 1, Append(x, h1.ret)))

\* the loop x[i] = storage.add(x[i], x_residual[i]), from i on
RECURSIVE forward_residual(_, _, _, _)
forward_residual(h, x, x_residual, i) ==
    IF i > Len(x) THEN [h EXCEPT !.vec = x, !.ret = NULL]
    ELSE Then(add(h, x[i], x_residual[i]), LAMBDA h1 :
         forward_residual(h1, [x EXCEPT ![i] = h1.ret], x_residual, i + 1))

\* the loop xi = storage.pow(storage.relu(xi), 2.0), from x[i] on
RECURSIVE forward_activation(_, _, _)
forward_activation(h, x, i) ==
    IF i > Len(x) THEN [h EXCEPT !.vec = x, !.ret = NULL]
    ELSE Then(relu(h, x[i]), LAMBDA h1 :
         Then(pow(h1, h1.ret, R(2, 1)), LAMBDA h2 :
         forward_activation(h2, [x EXCEPT ![i] = h2.ret], i + 1)))

\* the loop over j that adds q_h[j] * k_t[j] to score
RECURSIVE forward_score(_, _, _, _, _)
forward_score(h, q_h, k_t, j, score) ==
    IF j > Len(q_h) THEN [h EXCEPT !.ret = score]
    ELSE Then(mul(h, q_h[j], k_t[j]), LAMBDA h1 :
         Then(add(h1, score, h1.ret), LAMBDA h2 :
         forward_score(h2, q_h, k_t, j + 1, h2.ret)))

\* the loop over t that fills attn_logits
RECURSIVE forward_attn_logits(_, _, _, _, _, _)
forward_attn_logits(h, q_h, k_h, scale, t, attn_logits) ==
    IF t > Len(k_h) THEN [h EXCEPT !.vec = attn_logits, !.ret = NULL]
    ELSE Then(constant(h, Zero), LAMBDA h1 :
         Then(forward_score(h1, q_h, k_h[t], 1, h1.ret), LAMBDA h2 :
         Then(constant(h2, scale), LAMBDA h3 :
         Then(div(h3, h2.ret, h3.ret), LAMBDA h4 :
         forward_attn_logits(h4, q_h, k_h, scale, t + 1, Append(attn_logits, h4.ret))))))

\* the loop over t that adds attn_weights[t] * v_h[t][j] to head_out
RECURSIVE forward_head_out(_, _, _, _, _, _)
forward_head_out(h, attn_weights, v_h, j, t, head_out) ==
    IF t > Len(v_h) THEN [h EXCEPT !.ret = head_out]
    ELSE Then(mul(h, attn_weights[t], v_h[t][j]), LAMBDA h1 :
         Then(add(h1, head_out, h1.ret), LAMBDA h2 :
         forward_head_out(h2, attn_weights, v_h, j, t + 1, h2.ret)))

\* the loop over j that appends the outputs of one head to x_attn
RECURSIVE forward_weighted(_, _, _, _, _, _)
forward_weighted(h, attn_weights, v_h, head_dim, j, x_attn) ==
    IF j > head_dim THEN [h EXCEPT !.vec = x_attn, !.ret = NULL]
    ELSE Then(constant(h, Zero), LAMBDA h1 :
         Then(forward_head_out(h1, attn_weights, v_h, j, 1, h1.ret), LAMBDA h2 :
         forward_weighted(h2, attn_weights, v_h, head_dim, j + 1, Append(x_attn, h2.ret))))

\* the slice of the newest vector of a cache only
HeadSlicesNewest(cache, hs, head_dim) ==
    <<SubSeq(cache[Len(cache)], hs + 1, hs + head_dim)>>

\* the elements hs .. hs + head_dim - 1 of every vector of a cache
HeadSlices(cache, hs, head_dim) ==
    [t \in 1..Len(cache) |-> SubSeq(cache[t], hs + 1, hs + head_dim)]

\* the loop over the heads of layer li, from head hd on
RECURSIVE forward_heads(_, _, _, _, _, _)
forward_heads(h, li, q, head_dim, hd, x_attn) ==
    IF hd >= n_head THEN [h EXCEPT !.vec = x_attn, !.ret = NULL]
    ELSE LET hs == hd * head_dim
             q_h == SubSeq(q, hs + 1, hs + head_dim)
             k_h == HeadSlices(h.keys[li + 1], hs, head_dim)
             v_h == HeadSlices(h.vals[li + 1], hs, head_dim)
             scale == std_sqrt(ToDouble(R(head_dim, 1)))
         IN  IF hs + head_dim > Len(q) THEN Throw(h, "out_of_range")
             ELSE IF \E t \in 1..Len(h.keys[li + 1]) : hs + head_dim > Len(h.keys[li + 1][t])
             THEN Throw(h, "out_of_range")
             ELSE IF \E t \in 1..Len(h.vals[li + 1]) : hs + head_dim > Len(h.vals[li + 1][t])
             THEN Throw(h, "out_of_range")
             ELSE IF ~isfinite(scale) \/ Le(scale, Zero) THEN Throw(h, "runtime_error")
             ELSE Then(forward_attn_logits(h, q_h, k_h, scale, 1, <<>>), LAMBDA h1 :
                  Then(softmax(h1, h1.vec), LAMBDA h2 :
                  Then(forward_weighted(h2, h2.vec, v_h, head_dim, 1, x_attn), LAMBDA h3 :
                  forward_heads(h3, li, q, head_dim, hd + 1, h3.vec))))

\* the multi-head attention block of layer li
forward_attention(h, w, li, head_dim, x) ==
    Then(rmsnorm(h, x), LAMBDA h1 :
    Then(linear(h1, h1.vec, w.attn_wq[li + 1]), LAMBDA h2 :
    Then(linear(h2, h1.vec, w.attn_wk[li + 1]), LAMBDA h3 :
    Then(linear(h3, h1.vec, w.attn_wv[li + 1]), LAMBDA h4 :
    Then(forward_heads([h4 EXCEPT !.keys[li + 1] = Append(@, h3.vec),
                                  !.vals[li + 1] = Append(@, h4.vec)],
                       li, h2.vec, head_dim, 0, <<>>), LAMBDA h6 :
    Then(linear(h6, h6.vec, w.attn_wo[li + 1]), LAMBDA h7 :
    IF Len(h7.vec) # Len(x) THEN Throw(h7, "runtime_error")
    ELSE forward_residual(h7, h7.vec, x, 1)))))))

\* the MLP block of layer li
forward_mlp(h, w, li, x) ==
    Then(rmsnorm(h, x), LAMBDA h1 :
    Then(linear(h1, h1.vec, w.mlp_fc1[li + 1]), LAMBDA h2 :
    Then(forward_activation(h2, h2.vec, 1), LAMBDA h3 :
    Then(linear(h3, h3.vec, w.mlp_fc2[li + 1]), LAMBDA h4 :
    IF Len(h4.vec) # Len(x) THEN Throw(h4, "runtime_error")
    ELSE forward_residual(h4, h4.vec, x, 1)))))

\* one iteration of the loop over the transformer layers
forward_layer(h, w, li, head_dim, x) ==
    Then(forward_attention(h, w, li, head_dim, x), LAMBDA h1 : forward_mlp(h1, w, li, h1.vec))

\* the loop over the transformer layers, from layer li on
RECURSIVE forward_layers(_, _, _, _, _)
forward_layers(h, w, li, head_dim, x) ==
    IF li >= n_layer THEN [h EXCEPT !.vec = x, !.ret = NULL]
    ELSE Then(forward_layer(h, w, li, head_dim, x), LAMBDA h1 :
         forward_layers(h1, w, li + 1, head_dim, h1.vec))

\* GPT::config
config ==
    [vocab_size |-> vocab_size, n_embd |-> n_embd, n_head |-> n_head,
     n_layer |-> n_layer, block_size |-> block_size]

\* what config.n_embd / config.n_head does when n_head is 0, which is
\* undefined: the division traps, or it yields 0 or -1
DivByZero ==
    {[trap |-> TRUE, q |-> 0], [trap |-> FALSE, q |-> 0], [trap |-> FALSE, q |-> -1]}

\* the entry of forward with a node stored before the arguments are
\* validated
forward_entry_late(h, cfg, token_id, pos_id, ub) ==
    Then(constant(h, Zero), LAMBDA h1 :
    IF token_id < 0 \/ token_id >= cfg.vocab_size THEN Throw(h1, "out_of_range")
    ELSE IF pos_id < 0 \/ pos_id >= cfg.block_size THEN Throw(h1, "out_of_range")
    ELSE IF cfg.n_head = 0 \/ cfg.n_embd % cfg.n_head # 0
    THEN Throw(h1, "invalid_argument")
    ELSE h)

\* GPT::forward of a model with the configuration cfg, up to the embedding
\* lookup; ub is what a division by zero does
forward_entry(h, cfg, token_id, pos_id, ub) ==
    IF token_id < 0 \/ token_id >= cfg.vocab_size THEN Throw(h, "out_of_range")
    ELSE IF pos_id < 0 \/ pos_id >= cfg.block_size THEN Throw(h, "out_of_range")
    ELSE IF Len(h.values) > SIZE_LIMIT THEN Throw(h, "runtime_error")
    ELSE IF cfg.n_head = 0 /\ ub.trap THEN Throw(h, "SIGFPE")
    ELSE LET head_dim == IF cfg.n_head = 0 THEN ub.q ELSE cfg.n_embd \div cfg.n_head
         IN  IF head_dim <= 0 \/ cfg.n_embd % cfg.n_head # 0
             THEN Throw(h, "invalid_argument")
             ELSE h

\* GPT::forward(token_id, pos_id, keys, values, storage); the caches are
\* h.keys and h.vals
forward(h, w, token_id, pos_id) ==
    Then(forward_entry(h, config, token_id, pos_id, [trap |-> FALSE, q |-> 0]), LAMBDA h0 :
    Then(forward_embed(h0, w.wte[token_id + 1], w.wpe[pos_id + 1], 1, <<>>), LAMBDA h1 :
    Then(rmsnorm(h1, h1.vec), LAMBDA h2 :
    Then(forward_layers(h2, w, 0, n_embd \div n_head, h2.vec), LAMBDA h3 :
    Then(linear(h3, h3.vec, w.lm_head), LAMBDA h4 :
    IF Len(h4.vec) # vocab_size THEN Throw(h4, "runtime_error") ELSE h4)))))

(***************************************************************************)
(* Value::backward                                                         *)
(***************************************************************************)
\* the bound of build_topo on topo.size()
TOPO_LIMIT == 100000

\* the same bound where the caller builds graphs that reach beyond it
\* (SpecMalformed): scaled down to graphs of a few nodes
TOPO_LIMIT_SCALED == 1

TopoLimit == IF locals.at = "malformed" THEN TOPO_LIMIT_SCALED ELSE TOPO_LIMIT

\* backward() without the call of std::reverse
NotReversed(s) == s

\* std::reverse(topo.begin(), topo.end())
Reverse(s) == [i \in 1..Len(s) |-> s[Len(s) + 1 - i]]

\* The activations of build_topo are kept on an explicit stack, the last
\* element the running one: v is its first argument and i its place, 0 on
\* entry and i >= 1 at the test of the loop before operand i.  st holds the
\* reference parameters topo and visited, the exception thrown so far, and
\* this stack.
NoTopo == [topo |-> <<>>, visited |-> {}, err |-> "none", stack |-> <<>>]

\* the call build_topo(v, topo, visited)
build_topo_call(st, v) == [st EXCEPT !.stack = Append(@, [v |-> v, i |-> 0])]

\* the return of the running activation
build_topo_return(st) == [st EXCEPT !.stack = SubSeq(@, 1, Len(@) - 1)]

\* build_topo without the test of the visited set
build_topo_unmarked(m, v, st) ==
    IF v = NULL THEN [st EXCEPT !.err = "runtime_error"]
    ELSE IF Len(st.topo) > TopoLimit THEN [st EXCEPT !.err = "runtime_error"]
    ELSE IF ~ndebug /\ ~isfinite(m[v].data)
    THEN [st EXCEPT !.visited = @ \cup {v}, !.err = "abort"]
    ELSE [st EXCEPT !.visited = @ \cup {v}, !.stack[Len(st.stack)].i = 1]

\* the loop over children_ with a null child passed over instead of thrown
build_topo_children_skip_null(m, v, i, st) ==
    IF i > Len(m[v].children_)
    THEN build_topo_return([st EXCEPT !.topo = Append(@, v)])
    ELSE IF m[v].children_[i] = NULL THEN [st EXCEPT !.stack[Len(st.stack)].i = i + 1]
    ELSE build_topo_call([st EXCEPT !.stack[Len(st.stack)].i = i + 1], m[v].children_[i])

\* Value::build_topo, the body up to the loop over children_: the two
\* throws, the test of visited, visited.insert(v) and the assertion
build_topo(m, v, st) ==
    IF v = NULL THEN [st EXCEPT !.err = "runtime_error"]
    ELSE IF Len(st.topo) > TopoLimit THEN [st EXCEPT !.err = "runtime_error"]
    ELSE IF v \in st.visited THEN build_topo_return(st)
    ELSE IF ~ndebug /\ ~isfinite(m[v].data)
    THEN [st EXCEPT !.visited = @ \cup {v}, !.err = "abort"]
    ELSE [st EXCEPT !.visited = @ \cup {v}, !.stack[Len(st.stack)].i = 1]

\* Value::build_topo, the loop over children_ at the test before operand i:
\* topo.push_back(v) and the return when the loop is through, the throw for
\* a null operand, and the recursive call otherwise
build_topo_children(m, v, i, st) ==
    IF i > Len(m[v].children_)
    THEN build_topo_return([st EXCEPT !.topo = Append(@, v)])
    ELSE IF m[v].children_[i] = NULL THEN [st EXCEPT !.err = "runtime_error"]
    ELSE build_topo_call([st EXCEPT !.stack[Len(st.stack)].i = i + 1], m[v].children_[i])

\* the next step of the running activation
build_topo_step(m, st) ==
    LET f == st.stack[Len(st.stack)]
    IN  IF f.i = 0 THEN build_topo(m, f.v, st) ELSE build_topo_children(m, f.v, f.i, st)

\* the outermost call has returned, or an exception or abort() has ended it
build_topo_through(st) == st.err # "none" \/ st.stack = <<>>

\* up to 2^k steps of build_topo from st
RECURSIVE build_topo_steps(_, _, _)
build_topo_steps(m, st, k) ==
    IF build_topo_through(st) THEN st
    ELSE IF k = 0 THEN build_topo_step(m, st)
    ELSE build_topo_steps(m, build_topo_steps(m, st, k - 1), k - 1)

\* the steps of build_topo from st until it is through
RECURSIVE build_topo_run(_, _, _)
build_topo_run(m, st, k) ==
    IF build_topo_through(st) THEN st
    ELSE build_topo_run(m, build_topo_steps(m, st, k), k + 1)

\* the inner loop with child->grad = grad_contribution
RECURSIVE propagate_assign(_, _, _)
propagate_assign(r, v, i) ==
    IF r.err # "none" \/ i > Len(r.mem[v].children_) THEN r
    ELSE LET child == r.mem[v].children_[i]
             grad_contribution == Times(r.mem[v].local_grads_[i], r.mem[v].grad)
         IN  IF child = NULL THEN [r EXCEPT !.err = "runtime_error"]
             ELSE IF ~ndebug /\ ~isfinite(grad_contribution) THEN [r EXCEPT !.err = "abort"]
             ELSE propagate_assign([r EXCEPT !.mem[child].grad = grad_contribution],
                                   v, i + 1)

\* the inner loop with the contribution added to child->data as well
RECURSIVE propagate_data(_, _, _)
propagate_data(r, v, i) ==
    IF r.err # "none" \/ i > Len(r.mem[v].children_) THEN r
    ELSE LET child == r.mem[v].children_[i]
             grad_contribution == Times(r.mem[v].local_grads_[i], r.mem[v].grad)
         IN  IF child = NULL THEN [r EXCEPT !.err = "runtime_error"]
             ELSE IF ~ndebug /\ ~isfinite(grad_contribution) THEN [r EXCEPT !.err = "abort"]
             ELSE propagate_data([r EXCEPT !.mem[child].grad = Plus(@, grad_contribution),
                                           !.mem[child].data = Plus(@, grad_contribution)],
                                 v, i + 1)

\* the inner loop of backward() over the operands of v, from operand i on
RECURSIVE propagate(_, _, _)
propagate(r, v, i) ==
    IF r.err # "none" \/ i > Len(r.mem[v].children_) THEN r
    ELSE LET child == r.mem[v].children_[i]
             grad_contribution == Times(r.mem[v].local_grads_[i], r.mem[v].grad)
         IN  IF child = NULL THEN [r EXCEPT !.err = "runtime_error"]
             ELSE IF ~ndebug /\ ~isfinite(grad_contribution) THEN [r EXCEPT !.err = "abort"]
             ELSE propagate([r EXCEPT !.mem[child].grad = Plus(@, grad_contribution)],
                            v, i + 1)

\* the nodes build_topo walks from v when it reads the bytes in m
RECURSIVE Reach(_, _, _)
Reach(m, frontier, seen) ==
    IF frontier = {} THEN seen
    ELSE LET kids == UNION {{m[v].children_[i] : i \in 1..Len(m[v].children_)}
                            : v \in frontier} \ {NULL}
         IN  Reach(m, kids \ (seen \cup frontier), seen \cup frontier)

Reachable(m, t) == Reach(m, {t}, {})

\* the seed added to the grad the terminal holds
seed_accumulate(m, t) == [m EXCEPT ![t].grad = Plus(@, One)]

\* the seed after every grad in memory has been set to 0
seed_after_zero_grad(m, t) ==
    [a \in 1..Len(m) |-> [m[a] EXCEPT !.grad = IF a = t THEN One ELSE Zero]]

\* backward(): this->grad = 1.0
seed(m, t) == [m EXCEPT ![t].grad = One]

BackwardVars == <<terminal, topo, idx, trace, edges, history, snap, prev>>
CallVars     == <<call, ret, err>>
HeapVars     == <<mem, live, values>>

\* backward(): from the call to the start of the outer loop
BackwardCall(t) ==
    /\ pc = "idle"
    /\ LET st == build_topo_run(mem, build_topo_call(NoTopo, t), 0)
       IN  /\ call' = [op |-> "backward", args |-> <<t>>]
           /\ ret' = NULL
           /\ snap' = mem
           /\ prev' = snap
           /\ terminal' = t
           /\ trace' = <<>>
           /\ edges' = <<>>
           /\ IF st.err = "abort"
              THEN /\ err' = "abort"
                   /\ pc' = "aborted"
                   /\ UNCHANGED <<mem, topo, idx>>
              ELSE IF st.err # "none"
              THEN /\ err' = "runtime_error"
                   /\ UNCHANGED <<mem, topo, idx, pc>>
              ELSE /\ err' = "none"
                   /\ mem' = seed(mem, t)
                   /\ topo' = Reverse(st.topo)
                   /\ idx' = 1
                   /\ pc' = "backward"
    /\ UNCHANGED <<live, values, ndebug, budget, history, locals>>

\* backward(): one iteration of the outer loop
BackwardLoop ==
    /\ pc = "backward"
    /\ idx <= Len(topo)
    /\ LET v == topo[idx]
           r == IF ~ndebug /\ (~isfinite(mem[v].data) \/ ~isfinite(mem[v].grad))
                THEN [mem |-> mem, err |-> "abort"]
                ELSE propagate([mem |-> mem, err |-> "none"], v, 1)
       IN  /\ mem' = r.mem
           /\ err' = r.err
           /\ pc' = IF r.err = "abort" THEN "aborted"
                    ELSE IF r.err # "none" THEN "idle" ELSE pc
           /\ trace' = Append(trace, v)
           /\ edges' = edges \o [i \in 1..Len(mem[v].children_) |-> <<v, i>>]
           /\ idx' = idx + 1
    /\ UNCHANGED <<live, values, ndebug, budget, call, ret, terminal, topo, history, snap,
                   prev, locals>>

\* backward(): the outer loop is through and the call returns
BackwardReturn ==
    /\ pc = "backward"
    /\ idx > Len(topo)
    /\ pc' = "idle"
    /\ history' = Append(history, terminal)
    /\ UNCHANGED <<mem, live, values, ndebug, budget, call, ret, err, terminal, topo,
                   idx, trace, edges, snap, prev, locals>>

(***************************************************************************)
(* Calls on a ValueStorage                                                 *)
(***************************************************************************)
\* Spec calls no factory once this many objects exist
MaxNodes == 3

\* the pointers a caller of the arena holds: those the factories returned
Ptrs == {values[i] : i \in 1..Len(values)}

\* the run has work left for a call of cost c: creating an object costs 2,
\* a backward() call 1
Room(c) == 2 * Len(mem) + Len(history) + c <= budget

\* the call returns or throws: its effects, and the end of the
\* full-expression, which destroys the temporaries it created
Effects(name, args, h) ==
    /\ call' = [op |-> name, args |-> args]
    /\ mem' = h.mem
    /\ live' = h.live \ h.temps
    /\ values' = h.values
    /\ ret' = h.ret
    /\ err' = h.err
    /\ pc' = IF h.err = "abort" THEN "aborted" ELSE pc
    /\ UNCHANGED <<ndebug, budget>>
    /\ UNCHANGED BackwardVars

\* a call made by a caller that keeps no locals
Return(name, args, h) == Effects(name, args, h) /\ UNCHANGED locals

Constant(D) ==
    /\ pc = "idle" /\ Room(2)
    /\ \E d \in D : Return("constant", <<d>>, constant(Heap, d))

Add ==
    /\ pc = "idle" /\ Room(2)
    /\ \E a \in Ptrs, b \in Ptrs : Return("add", <<a, b>>, add(Heap, a, b))

AddD(D) ==
    /\ pc = "idle" /\ Room(2)
    /\ \E a \in Ptrs, b \in D : Return("add_d", <<a, b>>, add_d(Heap, a, b))

Mul ==
    /\ pc = "idle" /\ Room(2)
    /\ \E a \in Ptrs, b \in Ptrs : Return("mul", <<a, b>>, mul(Heap, a, b))

MulD(D) ==
    /\ pc = "idle" /\ Room(2)
    /\ \E a \in Ptrs, b \in D : Return("mul_d", <<a, b>>, mul_d(Heap, a, b))

Neg ==
    /\ pc = "idle" /\ Room(2)
    /\ \E a \in Ptrs : Return("neg", <<a>>, neg(Heap, a))

Sub ==
    /\ pc = "idle" /\ Room(2)
    /\ \E a \in Ptrs, b \in Ptrs : Return("sub", <<a, b>>, sub(Heap, a, b))

SubD(D) ==
    /\ pc = "idle" /\ Room(2)
    /\ \E a \in Ptrs, b \in D : Return("sub_d", <<a, b>>, sub_d(Heap, a, b))

Pow(E) ==
    /\ pc = "idle" /\ Room(2)
    /\ \E a \in Ptrs, k \in E :
          /\ PowExact(k)
          /\ Return("pow", <<a, k>>, pow(Heap, a, k))

Div ==
    /\ pc = "idle" /\ Room(2)
    /\ \E a \in Ptrs, b \in Ptrs : Return("div", <<a, b>>, div(Heap, a, b))

DivD(D) ==
    /\ pc = "idle" /\ Room(2)
    /\ \E a \in Ptrs, b \in D : Return("div_d", <<a, b>>, div_d(Heap, a, b))

Log ==
    /\ pc = "idle" /\ Room(2)
    /\ \E a \in Ptrs : Return("log", <<a>>, log(Heap, a))

Exp ==
    /\ pc = "idle" /\ Room(2)
    /\ \E a \in Ptrs : Return("exp", <<a>>, exp(Heap, a))

Relu ==
    /\ pc = "idle" /\ Room(2)
    /\ \E a \in Ptrs : Return("relu", <<a>>, relu(Heap, a))

Clear ==
    /\ pc = "idle"
    /\ values # <<>>
    /\ Return("clear", <<>>, clear(Heap))

Backward ==
    /\ Room(1)
    /\ \E t \in Ptrs : BackwardCall(t)

\* no call has been made and no backward() has run
InitControl ==
    /\ call = [op |-> "none", args |-> <<>>]
    /\ ret = NULL
    /\ err = "none"
    /\ pc = "idle"
    /\ terminal = NULL
    /\ topo = <<>>
    /\ idx = 0
    /\ trace = <<>>
    /\ edges = <<>>
    /\ history = <<>>
    /\ snap = <<>>
    /\ prev = <<>>

\* a program that has just constructed its ValueStorage
InitCommon ==
    /\ mem = <<>>
    /\ live = {}
    /\ values = <<>>
    /\ locals = NoLocals
    /\ InitControl

(***************************************************************************)
(* Spec: any sequence of factory calls on one ValueStorage                 *)
(***************************************************************************)
FactoryData    == {R(-2, 1), R(1, 16), DBL_MAX}
FactoryScalars == {R(2, 1)}
FactoryDivisors == {Zero, R(2, 1)}
FactoryExps    == {R(-1, 1), R(1, 2)}

Init == InitCommon /\ ndebug \in BOOLEAN /\ budget = 2 * MaxNodes

Next ==
    \/ Constant(FactoryData)
    \/ Add
    \/ AddD(FactoryScalars)
    \/ Mul
    \/ MulD(FactoryScalars)
    \/ Neg
    \/ Sub
    \/ SubD(FactoryScalars)
    \/ Pow(FactoryExps)
    \/ Div
    \/ DivD(FactoryDivisors)
    \/ Log
    \/ Exp
    \/ Relu
    \/ Clear

Spec == Init /\ [][Next]_vars

(***************************************************************************)
(* SpecGraph: a graph is built with constant, add and mul, and then         *)
(* backward() is called on any of its nodes, any number of times           *)
(***************************************************************************)
\* bound on the work of one run of SpecGraph: 4 nodes and 2 backward() calls
MaxWork   == 10
GraphData == {R(3, 1)}

\* no backward() has been called yet
Building == terminal = NULL

InitGraph == InitCommon /\ ndebug = FALSE /\ budget = MaxWork

GraphConstant == Building /\ Constant(GraphData)
GraphAdd      == Building /\ Add
GraphMul      == Building /\ Mul

NextGraph ==
    \/ GraphConstant
    \/ GraphAdd
    \/ GraphMul
    \/ Backward
    \/ BackwardLoop
    \/ BackwardReturn

SpecGraph == InitGraph /\ [][NextGraph]_vars

(***************************************************************************)
(* SpecTest: the two gradient tests, c = a * a and d = (a + b) * (a - b),  *)
(* built through the arena, each followed by one backward() on its result  *)
(***************************************************************************)
TestData == {R(-32, 1), R(-1, 2), Zero, R(2, 1), R(5, 1), R(15, 1), DBL_MAX}

InitTest == InitCommon /\ ndebug \in BOOLEAN /\ budget = 0

\* the test goes on: no call has thrown and no backward() has been called
Testing == pc = "idle" /\ err = "none" /\ terminal = NULL

\* Value* a = storage.constant(..)
TestLeafA ==
    /\ Testing /\ Len(values) = 0
    /\ \E d \in TestData : Return("constant", <<d>>, constant(Heap, d))

\* Value* c = storage.mul(a, a)
TestSquare ==
    /\ Testing /\ Len(values) = 1
    /\ Return("mul", <<values[1], values[1]>>, mul(Heap, values[1], values[1]))

\* Value* b = storage.constant(..)
TestLeafB ==
    /\ Testing /\ Len(values) = 1
    /\ \E d \in TestData : Return("constant", <<d>>, constant(Heap, d))

\* Value* s = storage.add(a, b)
TestSum ==
    /\ Testing /\ Len(values) = 2 /\ call.op = "constant"
    /\ Return("add", <<values[1], values[2]>>, add(Heap, values[1], values[2]))

\* Value* t = storage.sub(a, b)
TestDiff ==
    /\ Testing /\ Len(values) = 3
    /\ Return("sub", <<values[1], values[2]>>, sub(Heap, values[1], values[2]))

\* Value* d = storage.mul(s, t)
TestProduct ==
    /\ Testing /\ Len(values) = 5
    /\ Return("mul", <<values[3], values[5]>>, mul(Heap, values[3], values[5]))

\* c->backward() or d->backward()
TestBackward ==
    /\ Testing /\ call.op = "mul"
    /\ BackwardCall(ret)

NextTest ==
    \/ TestLeafA
    \/ TestSquare
    \/ TestLeafB
    \/ TestSum
    \/ TestDiff
    \/ TestProduct
    \/ TestBackward
    \/ BackwardLoop
    \/ BackwardReturn

SpecTest == InitTest /\ [][NextTest]_vars

(***************************************************************************)
(* SpecLayers: a caller that owns a weight matrix outside the arena fills  *)
(* a vector with constants, passes it through softmax, rmsnorm, linear,    *)
(* sub and div in any order, and calls backward() on the second            *)
(* probability softmax has returned, as the softmax test of                *)
(* test_factory_methods does                                               *)
(***************************************************************************)
\* the number of layer calls of a run
MaxLayers  == 2
\* std::vector<Value*> logits = {l1, l2}: the length of the vector, and the
\* side of the weight matrix
LayerWidth == 2

LayerData    == {R(-1, 1), R(1, 2), DBL_MAX}
LayerWeights == {R(1, 2), R(2, 1)}

\* std::vector<std::vector<Value>> w: the address of w[j][i]
LayerMatrix == [j \in 1..LayerWidth |-> [i \in 1..LayerWidth |-> (j - 1) * LayerWidth + i]]

\* the Values the caller owns outside the arena
Params == UNION {{locals.w[j][i] : i \in 1..Len(locals.w[j])} : j \in 1..Len(locals.w)}

InitLayers ==
    /\ \E d \in LayerWeights :
           mem = [p \in 1..(LayerWidth * LayerWidth) |-> Value(d, <<>>, <<>>)]
    /\ live = 1..(LayerWidth * LayerWidth)
    /\ values = <<>>
    /\ locals = [at |-> "layers", x |-> <<>>, w |-> LayerMatrix, calls |-> 0, base |-> 0]
    /\ ndebug \in BOOLEAN
    /\ budget = MaxLayers
    /\ InitControl

\* logits.push_back(storage.constant(d))
LayersConstant ==
    /\ pc = "idle" /\ err = "none"
    /\ Len(locals.x) < LayerWidth
    /\ \E d \in LayerData :
           LET h == constant(Heap, d)
           IN  /\ Effects("constant", <<>>, h)
               /\ locals' = [locals EXCEPT !.x = IF Failed(h) THEN @ ELSE Append(@, h.ret),
                                           !.base = Len(mem)]

LayersReady ==
    /\ pc = "idle" /\ err = "none"
    /\ Len(locals.x) = LayerWidth
    /\ locals.calls < budget
    /\ history = <<>>

\* x = name(x, ...): the call with its arguments, and the assignment of the
\* result when it returns
LayersCall(name, args, h) ==
    /\ Effects(name, args, h)
    /\ locals' = [locals EXCEPT !.x = IF Failed(h) THEN @ ELSE h.vec,
                                !.calls = @ + 1,
                                !.base = Len(mem)]

LayersSoftmax ==
    /\ LayersReady
    /\ LayersCall("softmax", locals.x, softmax(Heap, locals.x))

LayersRmsnorm ==
    /\ LayersReady
    /\ LayersCall("rmsnorm", locals.x, rmsnorm(Heap, locals.x))

LayersLinear ==
    /\ LayersReady
    /\ LayersCall("linear", locals.x, linear(Heap, locals.x, locals.w))

\* x[0] = storage.sub(x[0], x[1])
LayersSub ==
    /\ LayersReady
    /\ LET h == sub(Heap, locals.x[1], locals.x[2])
       IN  LayersCall("sub", <<locals.x[1], locals.x[2]>>,
                      [h EXCEPT !.vec = <<h.ret>> \o Tail(locals.x)])

\* x[0] = storage.div(x[0], x[1])
LayersDiv ==
    /\ LayersReady
    /\ LET h == div(Heap, locals.x[1], locals.x[2])
       IN  LayersCall("div", <<locals.x[1], locals.x[2]>>,
                      [h EXCEPT !.vec = <<h.ret>> \o Tail(locals.x)])

\* probs[1]->backward()
LayersBackward ==
    /\ err = "none"
    /\ call.op = "softmax"
    /\ BackwardCall(locals.x[2])

NextLayers ==
    \/ LayersConstant
    \/ LayersSoftmax
    \/ LayersRmsnorm
    \/ LayersLinear
    \/ LayersSub
    \/ LayersDiv
    \/ LayersBackward
    \/ BackwardLoop
    \/ BackwardReturn

SpecLayers == InitLayers /\ [][NextLayers]_vars

(***************************************************************************)
(* SpecTrain: one step of the training loop of examples/train.cpp, from    *)
(* the first forward call to the return of loss->backward().  The model's  *)
(* parameters are Values outside the arena.                                *)
(***************************************************************************)
\* the longest document of the dataset
MaxDocLen == 2

\* the weights StateDict::init draws from dist; those it draws from
\* dist_zero are 0
TrainWeights == {R(1, 2), R(-1, 1), R(1, 4)}

\* the documents: strings over the characters Tokenizer::fit has found
RECURSIVE Strings(_)
Strings(n) ==
    IF n = 0 THEN {<<>>}
    ELSE {Append(q, c) : q \in Strings(n - 1), c \in 0..(vocab_size - 2)}

Docs == UNION {Strings(n) : n \in 1..MaxDocLen}

\* Tokenizer::BOS
BOS == vocab_size - 1

\* Tokenizer::encode
encode(text) == <<BOS>> \o text \o <<BOS>>

Min(a, b) == IF a < b THEN a ELSE b

\* a matrix of nout rows of nin Values at the addresses after base
Matrix(base, nout, nin) ==
    [j \in 1..nout |-> [i \in 1..nin |-> base + (j - 1) * nin + i]]

\* the addresses of state_dict.weights; get_all_params walks the std::map
\* in the order of its keys: layer<i>.attn_wk, .attn_wo, .attn_wq, .attn_wv,
\* .mlp_fc1, .mlp_fc2, then lm_head, wpe, wte
LayerSize == 12 * n_embd * n_embd
HeadBase  == n_layer * LayerSize
StateDict ==
    [attn_wk |-> [l \in 1..n_layer |-> Matrix((l - 1) * LayerSize, n_embd, n_embd)],
     attn_wo |-> [l \in 1..n_layer |->
                     Matrix((l - 1) * LayerSize + n_embd * n_embd, n_embd, n_embd)],
     attn_wq |-> [l \in 1..n_layer |->
                     Matrix((l - 1) * LayerSize + 2 * n_embd * n_embd, n_embd, n_embd)],
     attn_wv |-> [l \in 1..n_layer |->
                     Matrix((l - 1) * LayerSize + 3 * n_embd * n_embd, n_embd, n_embd)],
     mlp_fc1 |-> [l \in 1..n_layer |->
                     Matrix((l - 1) * LayerSize + 4 * n_embd * n_embd, 4 * n_embd, n_embd)],
     mlp_fc2 |-> [l \in 1..n_layer |->
                     Matrix((l - 1) * LayerSize + 8 * n_embd * n_embd, n_embd, 4 * n_embd)],
     lm_head |-> Matrix(HeadBase, vocab_size, n_embd),
     wpe     |-> Matrix(HeadBase + vocab_size * n_embd, block_size, n_embd),
     wte     |-> Matrix(HeadBase + (vocab_size + block_size) * n_embd, vocab_size, n_embd)]

NumParams == HeadBase + (2 * vocab_size + block_size) * n_embd

\* the parameters StateDict::init fills from dist_zero
ZeroParams ==
    UNION {{(l - 1) * LayerSize + n_embd * n_embd + i : i \in 1..(n_embd * n_embd)}
               \cup {(l - 1) * LayerSize + 8 * n_embd * n_embd + i
                         : i \in 1..(4 * n_embd * n_embd)}
           : l \in 1..n_layer}

\* main() has constructed the model and the storage of the step, and has
\* encoded the document of the step
InitTrain ==
    /\ \E d \in TrainWeights :
           mem = [p \in 1..NumParams |->
                     Value(IF p \in ZeroParams THEN Zero ELSE d, <<>>, <<>>)]
    /\ live = 1..NumParams
    /\ values = <<>>
    /\ \E doc \in Docs :
           LET tokens == encode(doc)
           IN  locals = [at |-> "forward",
                         tokens |-> tokens,
                         n |-> Min(block_size, Len(tokens) - 1),
                         pos_id |-> 0,
                         keys |-> [l \in 1..n_layer |-> <<>>],
                         values |-> [l \in 1..n_layer |-> <<>>],
                         logits |-> <<>>,
                         probs |-> <<>>,
                         losses |-> <<>>,
                         l |-> 0,
                         loss |-> NULL,
                         n_val |-> NULL,
                         w |-> StateDict]
    /\ ndebug \in BOOLEAN
    /\ budget = 0
    /\ InitControl

\* main() is between two statements of the step
Training == pc = "idle" /\ err = "none"

\* a statement of main(): an exception that leaves it is not caught, and
\* ends the process
TrainStatement(name, args, h, next) ==
    /\ call' = [op |-> name, args |-> args]
    /\ mem' = h.mem
    /\ live' = h.live \ h.temps
    /\ values' = h.values
    /\ ret' = h.ret
    /\ err' = h.err
    /\ pc' = IF h.err = "abort" THEN "aborted"
             ELSE IF h.err # "none" THEN "terminated" ELSE pc
    /\ locals' = IF Failed(h) THEN locals ELSE next
    /\ UNCHANGED <<ndebug, budget>>
    /\ UNCHANGED BackwardVars

\* auto logits = model.forward(token_id, pos_id, keys, values, storage)
TrainForward ==
    /\ Training /\ locals.at = "forward"
    /\ LET token_id == locals.tokens[locals.pos_id + 1]
           h == forward([Heap EXCEPT !.keys = locals.keys, !.vals = locals.values],
                        locals.w, token_id, locals.pos_id)
       IN  TrainStatement("forward", <<token_id, locals.pos_id>>, h,
                          [locals EXCEPT !.at = "softmax", !.logits = h.vec,
                                         !.keys = h.keys, !.values = h.vals])

\* auto probs = softmax(logits, storage)
TrainSoftmax ==
    /\ Training /\ locals.at = "softmax"
    /\ LET h == softmax(Heap, locals.logits)
       IN  TrainStatement("softmax", locals.logits, h,
                          [locals EXCEPT !.at = "loss_t", !.probs = h.vec])

\* Value* loss_t = storage.store(-(probs[target_id]->log()));
\* losses.push_back(loss_t); and the step of the loop over pos_id
TrainLossT ==
    /\ Training /\ locals.at = "loss_t"
    /\ LET target_id == locals.tokens[locals.pos_id + 2]
           h1 == Value_log(Heap, locals.probs[target_id + 1])
           h2 == IF Failed(h1) THEN h1 ELSE operator_neg(h1, h1.ret)
           h3 == IF Failed(h2) THEN h2 ELSE store_moved(h2, h2.ret)
       IN  TrainStatement("store", <<target_id>>, h3,
                          [locals EXCEPT !.losses = Append(@, h3.ret),
                                         !.pos_id = @ + 1,
                                         !.at = IF locals.pos_id + 1 < locals.n
                                                THEN "forward" ELSE "loss"])

\* Value* loss = storage.store(Value(0.0))
TrainLoss ==
    /\ Training /\ locals.at = "loss"
    /\ LET h1 == temp(Heap, Value(Zero, <<>>, <<>>))
           h2 == IF Failed(h1) THEN h1 ELSE store_moved(h1, h1.ret)
       IN  TrainStatement("store", <<>>, h2,
                          [locals EXCEPT !.loss = h2.ret, !.l = 1, !.at = "accumulate"])

\* loss = storage.store(*loss + *l), for the next l of losses
TrainAccumulate ==
    /\ Training /\ locals.at = "accumulate"
    /\ locals.l <= Len(locals.losses)
    /\ LET h1 == operator_add(Heap, locals.loss, locals.losses[locals.l])
           h2 == IF Failed(h1) THEN h1 ELSE store_moved(h1, h1.ret)
       IN  TrainStatement("store", <<locals.loss, locals.losses[locals.l]>>, h2,
                          [locals EXCEPT !.loss = h2.ret, !.l = @ + 1])

\* Value* n_val = storage.store(Value(static_cast<double>(n)))
TrainNVal ==
    /\ Training /\ locals.at = "accumulate"
    /\ locals.l > Len(locals.losses)
    /\ LET h1 == temp(Heap, Value(ToDouble(R(locals.n, 1)), <<>>, <<>>))
           h2 == IF Failed(h1) THEN h1 ELSE store_moved(h1, h1.ret)
       IN  TrainStatement("store", <<>>, h2,
                          [locals EXCEPT !.n_val = h2.ret, !.at = "average"])

\* loss = storage.store(*loss / *n_val)
TrainAverage ==
    /\ Training /\ locals.at = "average"
    /\ LET h1 == operator_div(Heap, locals.loss, locals.n_val)
           h2 == IF Failed(h1) THEN h1 ELSE store_moved(h1, h1.ret)
       IN  TrainStatement("store", <<locals.loss, locals.n_val>>, h2,
                          [locals EXCEPT !.loss = h2.ret, !.at = "backward"])

\* the objects build_topo and the loop of backward() read from loss on
TrainReads == Reachable(mem, locals.loss)

\* loss->backward(), when the bytes of the objects it reads are those the
\* program last wrote there
TrainBackward ==
    /\ Training /\ locals.at = "backward"
    /\ call.op # "backward"
    /\ BackwardCall(locals.loss)

\* loss->backward(), when the read of an object whose lifetime has ended
\* faults
TrainBackwardFault ==
    /\ Training /\ locals.at = "backward"
    /\ call.op # "backward"
    /\ ~(TrainReads \subseteq live)
    /\ call' = [op |-> "backward", args |-> <<locals.loss>>]
    /\ err' = "segfault"
    /\ pc' = "crashed"
    /\ UNCHANGED <<mem, live, values, ndebug, budget, ret, locals>>
    /\ UNCHANGED BackwardVars

\* the loop of backward(), when the read of topo[idx] or the write to one
\* of its operands faults because the lifetime of the object has ended
TrainLoopFault ==
    /\ pc = "backward"
    /\ idx <= Len(topo)
    /\ ~(({topo[idx]} \cup {mem[topo[idx]].children_[i]
                               : i \in 1..Len(mem[topo[idx]].children_)}) \subseteq live)
    /\ err' = "segfault"
    /\ pc' = "crashed"
    /\ UNCHANGED <<mem, live, values, ndebug, budget, call, ret, locals>>
    /\ UNCHANGED BackwardVars

NextTrain ==
    \/ TrainForward
    \/ TrainSoftmax
    \/ TrainLossT
    \/ TrainLoss
    \/ TrainAccumulate
    \/ TrainNVal
    \/ TrainAverage
    \/ TrainBackward
    \/ TrainBackwardFault
    \/ TrainLoopFault
    \/ BackwardLoop
    \/ BackwardReturn

SpecTrain == InitTrain /\ [][NextTrain]_vars

(***************************************************************************)
(* Adam                                                                    *)
(***************************************************************************)
\* the arguments of Adam(1e-2, 0.9, 0.95, 1e-8), scaled to the doubles of
\* the model
learning_rate == R(1, 2)
beta1         == R(7, 8)
beta2         == R(15, 16)
eps           == R(1, 256)

\* std::cos(std::numbers::pi * q) for 0 <= q <= 1: a surrogate with the
\* same values at 0, 1/2 and 1, decreasing between them
cos_pi(q) == Plus(One, Minus(Times(R(2, 1), q)))

\* the body of the loop of Adam::step with p->grad left as it is
Adam_update_keep_grad(p, m_i, v_i, lr_t, step_count) ==
    LET m1 == Plus(Times(beta1, m_i), Times(Plus(One, Minus(beta1)), p.grad))
        v1 == Plus(Times(beta2, v_i),
                   Times(Times(Plus(One, Minus(beta2)), p.grad), p.grad))
        m_hat == Over(m1, Plus(One, Minus(IPow(beta1, step_count))))
        v_hat == Over(v1, Plus(One, Minus(IPow(beta2, step_count))))
    IN  [p |-> [p EXCEPT !.data = Plus(@, Minus(Over(Times(lr_t, m_hat),
                                                     Plus(std_sqrt(v_hat), eps))))],
         m |-> m1, v |-> v1]

\* the body of the loop of Adam::step for the parameter p = *params[i], with
\* m_i = m[i] and v_i = v[i]
Adam_update(p, m_i, v_i, lr_t, step_count) ==
    LET m1 == Plus(Times(beta1, m_i), Times(Plus(One, Minus(beta1)), p.grad))
        v1 == Plus(Times(beta2, v_i),
                   Times(Times(Plus(One, Minus(beta2)), p.grad), p.grad))
        m_hat == Over(m1, Plus(One, Minus(IPow(beta1, step_count))))
        v_hat == Over(v1, Plus(One, Minus(IPow(beta2, step_count))))
    IN  [p |-> [p EXCEPT !.data = Plus(@, Minus(Over(Times(lr_t, m_hat),
                                                     Plus(std_sqrt(v_hat), eps)))),
                         !.grad = Zero],
         m |-> m1, v |-> v1]

\* Adam::step(params, num_steps) on the optimizer opt = [m, v, step_count]:
\* the memory and the optimizer it leaves
Adam_step(m, opt, params, steps) ==
    LET step_count == opt.step_count + 1
        lr_t == Times(Times(learning_rate, R(1, 2)),
                      Plus(One, cos_pi(ToDouble(R(step_count, steps)))))
        upd == [i \in 1..Len(params) |->
                   Adam_update(m[params[i]], opt.m[i], opt.v[i], lr_t, step_count)]
    IN  [mem |-> [a \in 1..Len(m) |->
                     IF \E i \in 1..Len(params) : params[i] = a
                     THEN upd[CHOOSE i \in 1..Len(params) : params[i] = a].p
                     ELSE m[a]],
         opt |-> [m |-> [i \in 1..Len(params) |-> upd[i].m],
                  v |-> [i \in 1..Len(params) |-> upd[i].v],
                  step_count |-> step_count]]

(***************************************************************************)
(* SpecSmall: the training loop of test_train_small.cpp: in each step a    *)
(* fresh ValueStorage, the forward pass over the document of the step, the *)
(* loss built with the factories, loss->backward() and optimizer.step      *)
(***************************************************************************)
\* const int num_steps (5), scaled down
num_steps == 2

\* the datasets: one document, or two
Datasets == {<<d>> : d \in Docs} \cup {<<d1, d2>> : d1 \in Docs, d2 \in Docs}

\* the rows of a matrix, one after the other
RECURSIVE Flatten(_)
Flatten(rows) == IF rows = <<>> THEN <<>> ELSE Head(rows) \o Flatten(Tail(rows))

\* StateDict::get_all_params: the addresses of the Values of weights, in the
\* order of the keys of the std::map
RECURSIVE get_all_params_layers(_, _)
get_all_params_layers(w, l) ==
    IF l > n_layer THEN <<>>
    ELSE Flatten(w.attn_wk[l]) \o Flatten(w.attn_wo[l]) \o Flatten(w.attn_wq[l])
             \o Flatten(w.attn_wv[l]) \o Flatten(w.mlp_fc1[l]) \o Flatten(w.mlp_fc2[l])
             \o get_all_params_layers(w, l + 1)

get_all_params(w) ==
    get_all_params_layers(w, 1) \o Flatten(w.lm_head) \o Flatten(w.wpe) \o Flatten(w.wte)

\* the locals of the body of the loop at the start of step number step
StepLocals(step, docs) ==
    LET tokens == encode(docs[(step % Len(docs)) + 1])
    IN  [at |-> "forward",
         tokens |-> tokens,
         n |-> Min(block_size, Len(tokens) - 1),
         pos_id |-> 0,
         keys |-> [l \in 1..n_layer |-> <<>>],
         values |-> [l \in 1..n_layer |-> <<>>],
         logits |-> <<>>,
         probs |-> <<>>,
         losses |-> <<>>,
         l |-> 0,
         loss |-> NULL,
         n_val |-> NULL]

\* main() has constructed the model and the optimizer and enters the loop
InitSmall ==
    /\ \E d \in TrainWeights :
           mem = [p \in 1..NumParams |->
                     Value(IF p \in ZeroParams THEN Zero ELSE d, <<>>, <<>>)]
    /\ live = 1..NumParams
    /\ values = <<>>
    /\ \E docs \in Datasets :
           locals = [main |-> [step |-> 0,
                               docs |-> docs,
                               params |-> get_all_params(StateDict),
                               optimizer |-> [m |-> [i \in 1..NumParams |-> Zero],
                                              v |-> [i \in 1..NumParams |-> Zero],
                                              step_count |-> 0]],
                     w |-> StateDict] @@ StepLocals(0, docs)
    /\ ndebug \in BOOLEAN
    /\ budget = 0
    /\ InitControl

\* Value* log_prob = storage.log(probs[target_id]);
\* Value* loss_t = storage.neg(log_prob); losses.push_back(loss_t);
\* and the step of the loop over pos_id
SmallLossT ==
    /\ Training /\ locals.at = "loss_t"
    /\ LET target_id == locals.tokens[locals.pos_id + 2]
           h == Then(log(Heap, locals.probs[target_id + 1]), LAMBDA h1 : neg(h1, h1.ret))
       IN  TrainStatement("neg", <<target_id>>, h,
                          [locals EXCEPT !.losses = Append(@, h.ret),
                                         !.pos_id = @ + 1,
                                         !.at = IF locals.pos_id + 1 < locals.n
                                                THEN "forward" ELSE "loss"])

\* Value* loss = storage.constant(0.0)
SmallLoss ==
    /\ Training /\ locals.at = "loss"
    /\ LET h == constant(Heap, Zero)
       IN  TrainStatement("constant", <<Zero>>, h,
                          [locals EXCEPT !.loss = h.ret, !.l = 1, !.at = "accumulate"])

\* loss = storage.add(loss, l), for the next l of losses
SmallAccumulate ==
    /\ Training /\ locals.at = "accumulate"
    /\ locals.l <= Len(locals.losses)
    /\ LET h == add(Heap, locals.loss, locals.losses[locals.l])
       IN  TrainStatement("add", <<locals.loss, locals.losses[locals.l]>>, h,
                          [locals EXCEPT !.loss = h.ret, !.l = @ + 1])

\* Value* n_val = storage.constant(static_cast<double>(n))
SmallNVal ==
    /\ Training /\ locals.at = "accumulate"
    /\ locals.l > Len(locals.losses)
    /\ LET h == constant(Heap, ToDouble(R(locals.n, 1)))
       IN  TrainStatement("constant", <<locals.n>>, h,
                          [locals EXCEPT !.n_val = h.ret, !.at = "average"])

\* loss = storage.div(loss, n_val)
SmallAverage ==
    /\ Training /\ locals.at = "average"
    /\ LET h == div(Heap, locals.loss, locals.n_val)
       IN  TrainStatement("div", <<locals.loss, locals.n_val>>, h,
                          [locals EXCEPT !.loss = h.ret, !.at = "backward"])

\* loss->backward()
SmallBackward ==
    /\ Training /\ locals.at = "backward"
    /\ call.op # "backward"
    /\ BackwardCall(locals.loss)

\* optimizer.step(params, num_steps), once backward() has returned
SmallOptimizerStep ==
    /\ Training /\ locals.at = "backward"
    /\ call.op = "backward"
    /\ LET r == Adam_step(mem, locals.main.optimizer, locals.main.params, num_steps)
       IN  /\ mem' = r.mem
           /\ locals' = [locals EXCEPT !.main.optimizer = r.opt, !.at = "end"]
    /\ call' = [op |-> "step", args |-> <<num_steps>>]
    /\ UNCHANGED <<live, values, ndebug, budget, ret, err, pc>>
    /\ UNCHANGED BackwardVars

\* the end of the body of the loop without the destructor of storage
SmallNextStepKeepsStorage ==
    /\ Training /\ locals.at = "end"
    /\ locals' = IF locals.main.step + 1 < num_steps
                 THEN [main |-> [locals.main EXCEPT !.step = @ + 1], w |-> locals.w]
                          @@ StepLocals(locals.main.step + 1, locals.main.docs)
                 ELSE [locals EXCEPT !.at = "done", !.main.step = @ + 1]
    /\ call' = [op |-> "~ValueStorage", args |-> <<>>]
    /\ UNCHANGED <<mem, live, values, ndebug, budget, ret, err, pc>>
    /\ UNCHANGED BackwardVars

\* the end of the body of the loop: storage and the caches are destroyed,
\* and the next step begins, if there is one
SmallNextStep ==
    /\ Training /\ locals.at = "end"
    /\ live' = live \ Ptrs
    /\ values' = <<>>
    /\ locals' = IF locals.main.step + 1 < num_steps
                 THEN [main |-> [locals.main EXCEPT !.step = @ + 1], w |-> locals.w]
                          @@ StepLocals(locals.main.step + 1, locals.main.docs)
                 ELSE [locals EXCEPT !.at = "done", !.main.step = @ + 1]
    /\ call' = [op |-> "~ValueStorage", args |-> <<>>]
    /\ UNCHANGED <<mem, ndebug, budget, ret, err, pc>>
    /\ UNCHANGED BackwardVars

NextSmall ==
    \/ TrainForward
    \/ TrainSoftmax
    \/ SmallLossT
    \/ SmallLoss
    \/ SmallAccumulate
    \/ SmallNVal
    \/ SmallAverage
    \/ SmallBackward
    \/ BackwardLoop
    \/ BackwardReturn
    \/ SmallOptimizerStep
    \/ SmallNextStep

SpecSmall == InitSmall /\ [][NextSmall]_vars

(***************************************************************************)
(* SpecGenerate: one call of GPT::generate(start_token, max_length,        *)
(* temperature) on a model that has just been constructed.  The storage    *)
(* and the caches are locals of the call; the token a step samples is any  *)
(* token the distribution gives a positive probability.                    *)
(***************************************************************************)
\* the largest max_length of a call
MaxLength == 3

\* the start tokens of the calls: a character, BOS, and one past the
\* vocabulary
StartTokens == {0, BOS, vocab_size}

\* the temperatures of the calls
Temperatures == {One, R(1, 2), Zero}

\* sample_multinomial: std::discrete_distribution draws index i with a
\* probability proportional to probs[i]; weights that are not finite, not
\* all >= 0 or all 0 break its precondition, and it may give any index up
\* to probs.size()
sample_multinomial(probs) ==
    IF /\ \A i \in 1..Len(probs) : isfinite(probs[i]) /\ ~Lt(probs[i], Zero)
       /\ \E i \in 1..Len(probs) : Gt(probs[i], Zero)
    THEN {i - 1 : i \in {j \in 1..Len(probs) : Gt(probs[j], Zero)}}
    ELSE 0..Len(probs)

\* the locals of generate at its first statement
GenerateLocals(start_token, max_length, temperature) ==
    [at |-> "generate",
     start_token |-> start_token,
     max_length |-> max_length,
     temperature |-> temperature,
     token_id |-> start_token,
     pos_id |-> 0,
     keys |-> [l \in 1..n_layer |-> <<>>],
     values |-> [l \in 1..n_layer |-> <<>>],
     logits |-> <<>>,
     scaled_logits |-> <<>>,
     probs |-> <<>>,
     tokens |-> <<>>]

\* the caller has constructed the model and calls generate
InitGenerate ==
    /\ \E d \in TrainWeights :
           mem = [p \in 1..NumParams |->
                     Value(IF p \in ZeroParams THEN Zero ELSE d, <<>>, <<>>)]
    /\ live = 1..NumParams
    /\ values = <<>>
    /\ \E start_token \in StartTokens, max_length \in -1..MaxLength,
          temperature \in Temperatures :
           locals = [w |-> StateDict]
                        @@ GenerateLocals(start_token, max_length, temperature)
    /\ ndebug \in BOOLEAN
    /\ budget = 0
    /\ InitControl

\* ValueStorage storage; the caches; tokens.reserve(max_length), which
\* converts max_length to size_t and throws when that exceeds max_size()
GenerateReserve ==
    /\ Training /\ locals.at = "generate"
    /\ LET h == IF locals.max_length < 0 THEN Throw(Heap, "length_error") ELSE Heap
       IN  TrainStatement("reserve", <<locals.max_length>>, h,
                          [locals EXCEPT !.at = "for"])

\* the loop condition without its second conjunct
GenerateContinuesToMaxLength == locals.pos_id < locals.max_length

\* pos_id < max_length && pos_id < config.block_size
GenerateContinues ==
    locals.pos_id < locals.max_length /\ locals.pos_id < block_size

\* auto logits = forward(token_id, pos_id, keys, values, storage)
GenerateForward ==
    /\ Training /\ locals.at = "for"
    /\ GenerateContinues
    /\ LET h == forward([Heap EXCEPT !.keys = locals.keys, !.vals = locals.values],
                        locals.w, locals.token_id, locals.pos_id)
       IN  TrainStatement("forward", <<locals.token_id, locals.pos_id>>, h,
                          [locals EXCEPT !.at = "scale", !.logits = h.vec,
                                         !.keys = h.keys, !.values = h.vals])

\* the loop over logits: scaled_logits.push_back(storage.div(l, temperature))
RECURSIVE generate_scaled(_, _, _, _, _)
generate_scaled(h, logits, temperature, i, scaled_logits) ==
    IF i > Len(logits) THEN [h EXCEPT !.vec = scaled_logits]
    ELSE Then(div_d(h, logits[i], temperature), LAMBDA h1 :
         generate_scaled(h1, logits, temperature, i + 1, Append(scaled_logits, h1.ret)))

GenerateScale ==
    /\ Training /\ locals.at = "scale"
    /\ LET h == generate_scaled(Heap, locals.logits, locals.temperature, 1, <<>>)
       IN  TrainStatement("div", <<locals.temperature>>, h,
                          [locals EXCEPT !.at = "probs", !.scaled_logits = h.vec])

\* auto probs = softmax(scaled_logits, storage)
GenerateSoftmax ==
    /\ Training /\ locals.at = "probs"
    /\ LET h == softmax(Heap, locals.scaled_logits)
       IN  TrainStatement("softmax", locals.scaled_logits, h,
                          [locals EXCEPT !.at = "sample", !.probs = h.vec])

\* token_id = sample_multinomial(probs_data); the break when it is
\* start_token, and otherwise tokens.push_back(token_id) and ++pos_id
GenerateSample ==
    /\ Training /\ locals.at = "sample"
    /\ \E token_id \in sample_multinomial([i \in 1..Len(locals.probs) |->
                                              mem[locals.probs[i]].data]) :
           TrainStatement("sample_multinomial", <<token_id>>, Heap,
                          IF token_id = locals.start_token
                          THEN [locals EXCEPT !.token_id = token_id, !.at = "return"]
                          ELSE [locals EXCEPT !.token_id = token_id,
                                              !.tokens = Append(@, token_id),
                                              !.pos_id = @ + 1,
                                              !.at = "for"])

\* return tokens, after the loop or the break: storage and the caches are
\* destroyed
GenerateReturn ==
    /\ Training
    /\ \/ locals.at = "return"
       \/ locals.at = "for" /\ ~GenerateContinues
    /\ live' = live \ Ptrs
    /\ values' = <<>>
    /\ locals' = [locals EXCEPT !.at = "returned"]
    /\ call' = [op |-> "generate", args |-> <<locals.start_token, locals.max_length>>]
    /\ UNCHANGED <<mem, ndebug, budget, ret, err, pc>>
    /\ UNCHANGED BackwardVars

NextGenerate ==
    \/ GenerateReserve
    \/ GenerateForward
    \/ GenerateScale
    \/ GenerateSoftmax
    \/ GenerateSample
    \/ GenerateReturn

SpecGenerate == InitGenerate /\ [][NextGenerate]_vars

\* generate has a statement left to execute
GenerateRunning == Training /\ locals.at # "returned"

\* the thread that runs generate executes its next statement: weak fairness
\* of NextGenerate, which is enabled exactly when GenerateRunning holds
SpecGenerateFair ==
    SpecGenerate /\ ([]<>(~GenerateRunning) \/ []<><<NextGenerate>>_vars)

(***************************************************************************)
(* SpecLifecycle: the storages of a program that trains and then samples:  *)
(* the training loop of SpecSmall, each step with a ValueStorage of its    *)
(* own, and after the last step a call                                     *)
(* model.generate(tokenizer.BOS, config.block_size, temperature) on the    *)
(* trained parameters, as the sampling loop of the examples makes it.      *)
(***************************************************************************)
\* double temperature = 0.5
temperature == R(1, 2)

\* auto tokens = model.generate(tokenizer.BOS, config.block_size, temperature)
LifecycleSample ==
    /\ Training /\ locals.at = "done"
    /\ locals' = [main |-> locals.main, w |-> locals.w]
                     @@ GenerateLocals(BOS, block_size, temperature)
    /\ call' = [op |-> "generate", args |-> <<BOS, block_size>>]
    /\ UNCHANGED <<mem, live, values, ndebug, budget, ret, err, pc>>
    /\ UNCHANGED BackwardVars

\* auto logits = forward(token_id, pos_id, keys, values, storage), in the
\* training loop and in generate
LifecycleForward ==
    /\ Training
    /\ \/ locals.at = "forward"
       \/ locals.at = "for" /\ GenerateContinues
    /\ LET token_id == IF locals.at = "forward" THEN locals.tokens[locals.pos_id + 1]
                       ELSE locals.token_id
           h == forward([Heap EXCEPT !.keys = locals.keys, !.vals = locals.values],
                        locals.w, token_id, locals.pos_id)
       IN  TrainStatement("forward", <<token_id, locals.pos_id>>, h,
                          [locals EXCEPT !.at = IF locals.at = "forward" THEN "softmax"
                                                ELSE "scale",
                                         !.logits = h.vec,
                                         !.keys = h.keys, !.values = h.vals])

NextLifecycle ==
    \/ LifecycleForward
    \/ TrainSoftmax
    \/ SmallLossT
    \/ SmallLoss
    \/ SmallAccumulate
    \/ SmallNVal
    \/ SmallAverage
    \/ SmallBackward
    \/ BackwardLoop
    \/ BackwardReturn
    \/ SmallOptimizerStep
    \/ SmallNextStep
    \/ LifecycleSample
    \/ GenerateReserve
    \/ GenerateScale
    \/ GenerateSoftmax
    \/ GenerateSample
    \/ GenerateReturn

\* main() enters the training loop with a dataset of one document
InitLifecycle == InitSmall /\ Len(locals.main.docs) = 1

SpecLifecycle == InitLifecycle /\ [][NextLifecycle]_vars

(***************************************************************************)
(* SpecTopo: the pointer-based API test: nodes stored from a Value        *)
(* temporary, sums of two stored nodes built with the deprecated operator+ *)
(* and stored, and backward() on a sum                                     *)
(***************************************************************************)
\* bound on the sums stored in one run; backward() is called at most once
\* more than that
MaxSums == 1

TopoData == {Minus(DBL_MAX), R(-1, 2), R(3, 1), DBL_MAX}

InitTopo == InitCommon /\ ndebug \in BOOLEAN /\ budget = 0

\* the nodes of the arena with and without operands
TopoSums   == {p \in Ptrs : mem[p].children_ # <<>>}
TopoLeaves == {p \in Ptrs : mem[p].children_ = <<>>}

\* the test goes on: no call has thrown
TopoTesting == pc = "idle" /\ err = "none"

\* Value* a = storage.store(Value(d))
TopoStore ==
    /\ TopoTesting
    /\ Cardinality(TopoLeaves) < 2
    /\ \E d \in TopoData :
           Return("store", <<d>>,
                  Then(temp(Heap, Value(d, <<>>, <<>>)), LAMBDA h1 : store_moved(h1, h1.ret)))

\* Value* c = storage.store(*a + *b)
TopoSum ==
    /\ TopoTesting
    /\ Cardinality(TopoSums) < MaxSums
    /\ \E a \in Ptrs, b \in Ptrs :
           Return("operator+", <<a, b>>,
                  Then(operator_add(Heap, a, b), LAMBDA h1 : store_moved(h1, h1.ret)))

\* c->backward()
TopoBackward ==
    /\ TopoTesting
    /\ Len(history) <= MaxSums
    /\ \E c \in TopoSums : BackwardCall(c)

NextTopo ==
    \/ TopoStore
    \/ TopoSum
    \/ TopoBackward
    \/ BackwardLoop
    \/ BackwardReturn

SpecTopo == InitTopo /\ [][NextTopo]_vars

(***************************************************************************)
(* SpecTokenizer: a Tokenizer is fitted on documents, a text is encoded    *)
(* and the tokens are decoded                                              *)
(***************************************************************************)
\* bound on the length of a document and of a text
MaxTextLen == 2

\* the values of char the documents and texts are made of
Chars == {-1, 65, 66}

RECURSIVE Texts(_)
Texts(len) ==
    IF len = 0 THEN {<<>>}
    ELSE Texts(len - 1) \cup {Append(t, c) : t \in {u \in Texts(len - 1) : Len(u) = len - 1},
                                             c \in Chars}

\* the elements of a std::set<char>, in its order
RECURSIVE Ascending(_)
Ascending(S) ==
    IF S = {} THEN <<>>
    ELSE LET least == CHOOSE c \in S : \A e \in S : c <= e
         IN  <<least>> \o Ascending(S \ {least})

\* Tokenizer::fit
fit(docs) ==
    LET char_set == UNION {{docs[i][j] : j \in 1..Len(docs[i])} : i \in 1..Len(docs)}
        uchars == Ascending(char_set)
    IN  [uchars |-> uchars, BOS |-> Len(uchars), vocab_size |-> Len(uchars) + 1]

\* std::find(uchars.begin(), uchars.end(), c) - uchars.begin()
find(uchars, c) ==
    IF \E i \in 1..Len(uchars) : uchars[i] = c
    THEN (CHOOSE i \in 1..Len(uchars) : uchars[i] = c /\ \A j \in 1..(i - 1) : uchars[j] # c) - 1
    ELSE Len(uchars)

\* the loop of encode with the index counted from 1
RECURSIVE Tokenizer_encode_from_one(_, _, _)
Tokenizer_encode_from_one(tk, text, tokens) ==
    IF text = <<>> THEN Append(tokens, tk.BOS)
    ELSE LET it == find(tk.uchars, Head(text))
         IN  Tokenizer_encode_from_one(tk, Tail(text),
                 IF it # Len(tk.uchars) THEN Append(tokens, it + 1) ELSE tokens)

\* Tokenizer::encode: the loop over the characters of text from the tokens
\* pushed so far, and the closing BOS
RECURSIVE Tokenizer_encode(_, _, _)
Tokenizer_encode(tk, text, tokens) ==
    IF text = <<>> THEN Append(tokens, tk.BOS)
    ELSE LET it == find(tk.uchars, Head(text))
         IN  Tokenizer_encode(tk, Tail(text),
                 IF it # Len(tk.uchars) THEN Append(tokens, it) ELSE tokens)

\* Tokenizer::decode: the loop over tokens from the text built so far
RECURSIVE Tokenizer_decode(_, _, _)
Tokenizer_decode(tk, tokens, text) ==
    IF tokens = <<>> THEN text
    ELSE Tokenizer_decode(tk, Tail(tokens),
             IF Head(tokens) # tk.BOS /\ Head(tokens) < Len(tk.uchars)
             THEN Append(text, tk.uchars[Head(tokens) + 1]) ELSE text)

InitTokenizer ==
    /\ InitControl
    /\ mem = <<>> /\ live = {} /\ values = <<>>
    /\ ndebug \in BOOLEAN
    /\ budget = 0
    /\ \E d1 \in Texts(MaxTextLen), d2 \in Texts(MaxTextLen) :
           locals = [at |-> "fit", docs |-> <<d1, d2>>, tokenizer |-> <<>>,
                     text |-> <<>>, tokens |-> <<>>, decoded |-> <<>>]

\* tokenizer.fit(docs)
TokenizerFit ==
    /\ locals.at = "fit"
    /\ locals' = [locals EXCEPT !.at = "encode", !.tokenizer = fit(locals.docs)]
    /\ call' = [op |-> "fit", args |-> <<>>]
    /\ UNCHANGED <<mem, live, values, ndebug, budget, ret, err, pc>>
    /\ UNCHANGED BackwardVars

\* tokens = tokenizer.encode(text)
TokenizerEncode ==
    /\ locals.at = "encode"
    /\ \E text \in Texts(MaxTextLen) :
           /\ locals' = [locals EXCEPT !.at = "decode", !.text = text,
                             !.tokens = Tokenizer_encode(locals.tokenizer, text,
                                                         <<locals.tokenizer.BOS>>)]
           /\ call' = [op |-> "encode", args |-> <<text>>]
    /\ UNCHANGED <<mem, live, values, ndebug, budget, ret, err, pc>>
    /\ UNCHANGED BackwardVars

\* tokenizer.decode(tokens)
TokenizerDecode ==
    /\ locals.at = "decode"
    /\ locals' = [locals EXCEPT !.at = "decoded",
                      !.decoded = Tokenizer_decode(locals.tokenizer, locals.tokens, <<>>)]
    /\ call' = [op |-> "decode", args |-> <<locals.tokens>>]
    /\ UNCHANGED <<mem, live, values, ndebug, budget, ret, err, pc>>
    /\ UNCHANGED BackwardVars

NextTokenizer ==
    \/ TokenizerFit
    \/ TokenizerEncode
    \/ TokenizerDecode

SpecTokenizer == InitTokenizer /\ [][NextTokenizer]_vars

(***************************************************************************)
(* SpecWeights: examples/train.cpp writes model_weights.bin after the      *)
(* training loop and exits; examples/infer.cpp then reads the file into a  *)
(* model it constructs.  The file is a sequence of bytes; an int has       *)
(* sizeof(int) = 4 bytes, least significant first, and a double its sign   *)
(* and exponent in one byte and its significand in another.                *)
(***************************************************************************)
\* the data of the parameters when the training loop is through
WeightData == <<R(1, 2), R(-1, 1), Zero, DBL_MAX, Minus(DBL_TRUE_MIN)>>

\* the object representation of an int
IntBytes(i) ==
    LET low == IF i >= 0 THEN i ELSE (i + 2147483647) + 1
    IN  <<low % 256, (low \div 256) % 256, (low \div 65536) % 256,
          (low \div 16777216) + (IF i < 0 THEN 128 ELSE 0)>>

\* the int of an object representation read with the bytes in the opposite
\* order
BytesIntReversed(b) ==
    LET low == b[4] + 256 * b[3] + 65536 * b[2] + 16777216 * (b[1] % 128)
    IN  IF b[1] >= 128 THEN (low - 2147483647) - 1 ELSE low

\* the int of an object representation
BytesInt(b) ==
    LET low == b[1] + 256 * b[2] + 65536 * b[3] + 16777216 * (b[4] % 128)
    IN  IF b[4] >= 128 THEN (low - 2147483647) - 1 ELSE low

\* the object representation of a char, and the char of a byte
CharByte(c) == c % 256
ByteChar(b) == IF b >= 128 THEN b - 256 ELSE b

\* the object representation of a double: the sign bit and the biased
\* exponent, then the significand
DoubleBytes(x) ==
    IF isnan(x) THEN <<127, 1>>
    ELSE IF ~isfinite(x) THEN <<(IF x.n < 0 THEN 128 ELSE 0) + 127, 0>>
    ELSE IF x.n = 0 THEN <<0, 0>>
    ELSE LET e == Exponent(Abs(x.n), x.d, MIN_EXP)
         IN  <<(IF x.n < 0 THEN 128 ELSE 0) + (e - MIN_EXP + 1),
               (Abs(x.n) * UlpD(e)) \div (x.d * UlpN(e))>>

\* the double of an object representation
BytesDouble(b) ==
    LET sign == IF b[1] >= 128 THEN -1 ELSE 1
        biased == b[1] % 128
        e == biased - 1 + MIN_EXP
    IN  IF biased = 127 THEN (IF b[2] # 0 THEN NaN ELSE IF sign < 0 THEN NegInf ELSE PosInf)
        ELSE IF biased = 0 \/ b[2] = 0 THEN Zero
        ELSE R(sign * b[2] * UlpN(e), UlpD(e))

\* std::istream::read of n bytes: past the end of the file it sets failbit,
\* and a stream with failbit set reads nothing
read(in, n) ==
    IF in.fail \/ in.pos + n > Len(in.file)
    THEN [in EXCEPT !.fail = TRUE, !.bytes = <<>>]
    ELSE [in EXCEPT !.pos = @ + n, !.bytes = SubSeq(in.file, in.pos + 1, in.pos + n)]

\* infile.read(reinterpret_cast<char*>(&i), sizeof(int)) into an int that
\* holds old
read_int(in, old) ==
    LET r == read(in, 4)
    IN  [r EXCEPT !.val = IF r.fail THEN old ELSE BytesInt(r.bytes)]

\* the loop that writes p->data for every p of params, from params[i] on
RECURSIVE write_params(_, _, _, _)
write_params(m, params, i, file) ==
    IF i > Len(params) THEN file
    ELSE write_params(m, params, i + 1, file \o DoubleBytes(m[params[i]].data))

\* the loop that reads p->data for every p of params, from params[i] on
RECURSIVE read_params(_, _, _, _)
read_params(m, params, i, in) ==
    IF i > Len(params) THEN [in EXCEPT !.mem = m]
    ELSE LET r == read(in, 2)
         IN  read_params(IF r.fail THEN m
                         ELSE [m EXCEPT ![params[i]].data = BytesDouble(r.bytes)],
                         params, i + 1, r)

\* train.cpp has fitted the tokenizer to its documents, which have
\* vocab_size - 1 distinct characters, has constructed the model for config
\* and has trained it
InitWeights ==
    /\ \E k \in 1..Len(WeightData) :
           mem = [p \in 1..NumParams |->
                     Value(WeightData[((p + k) % Len(WeightData)) + 1], <<>>, <<>>)]
    /\ live = 1..NumParams
    /\ values = <<>>
    /\ \E c \in Chars :
           locals = [at |-> "save",
                     tokenizer |-> fit(<<<<c>>, <<c, c>>>>),
                     config |-> config,
                     params |-> get_all_params(StateDict),
                     exists |-> FALSE,
                     file |-> <<>>,
                     in |-> [file |-> <<>>, pos |-> 0, fail |-> FALSE,
                             bytes |-> <<>>, val |-> 0, mem |-> <<>>],
                     loaded |-> [config |-> [vocab_size |-> 0, n_embd |-> 0, n_head |-> 0,
                                             n_layer |-> 0, block_size |-> 0],
                                 tokenizer |-> [uchars |-> <<>>, BOS |-> 0, vocab_size |-> 0],
                                 params |-> <<>>]]
    /\ ndebug \in BOOLEAN
    /\ budget = 0
    /\ InitControl

\* a statement of one of the two programs that does not touch the objects
WeightsStatement(name, next) ==
    /\ pc = "idle"
    /\ call' = [op |-> name, args |-> <<>>]
    /\ locals' = next
    /\ UNCHANGED <<mem, live, values, ndebug, budget, ret, err, pc>>
    /\ UNCHANGED BackwardVars

\* a failed assert of infer.cpp
WeightsAbort(name) ==
    /\ pc = "idle"
    /\ call' = [op |-> name, args |-> <<>>]
    /\ err' = "abort"
    /\ pc' = "aborted"
    /\ UNCHANGED <<mem, live, values, ndebug, budget, ret, locals>>
    /\ UNCHANGED BackwardVars

\* std::ofstream outfile("model_weights.bin", std::ios::binary): the file
\* is created empty, or it cannot be opened, and train.cpp saves nothing
SaveOpen ==
    /\ locals.at = "save"
    /\ \E is_open \in BOOLEAN :
           WeightsStatement("ofstream",
               IF is_open THEN [locals EXCEPT !.at = "save_config", !.exists = TRUE]
               ELSE [locals EXCEPT !.at = "unsaved"])

\* the five outfile.write of the fields of config
SaveConfig ==
    /\ locals.at = "save_config"
    /\ WeightsStatement("write",
           [locals EXCEPT !.at = "save_tokenizer",
                          !.file = @ \o IntBytes(locals.config.vocab_size)
                                     \o IntBytes(locals.config.n_embd)
                                     \o IntBytes(locals.config.n_head)
                                     \o IntBytes(locals.config.n_layer)
                                     \o IntBytes(locals.config.block_size)])

\* uchars_size, the characters of uchars, and BOS
SaveTokenizer ==
    /\ locals.at = "save_tokenizer"
    /\ LET uchars == locals.tokenizer.uchars
       IN  WeightsStatement("write",
               [locals EXCEPT !.at = "save_params",
                              !.file = @ \o IntBytes(Len(uchars))
                                         \o [i \in 1..Len(uchars) |-> CharByte(uchars[i])]
                                         \o IntBytes(locals.tokenizer.BOS)])

\* the loop over params, outfile.close(), and the end of the process
SaveParams ==
    /\ locals.at = "save_params"
    /\ pc = "idle"
    /\ locals' = [locals EXCEPT !.at = "load",
                                !.file = write_params(mem, locals.params, 1, @)]
    /\ live' = {}
    /\ call' = [op |-> "write", args |-> <<>>]
    /\ UNCHANGED <<mem, values, ndebug, budget, ret, err, pc>>
    /\ UNCHANGED BackwardVars

\* infer.cpp: std::ifstream infile("model_weights.bin", std::ios::binary)
\* and the return when it is not open
LoadOpen ==
    /\ locals.at \in {"load", "unsaved"}
    /\ WeightsStatement("ifstream",
           IF ~locals.exists THEN [locals EXCEPT !.at = "failed"]
           ELSE [locals EXCEPT !.at = "load_config", !.in.file = locals.file])

\* the five infile.read into the fields of config, and the asserts on them
LoadConfig ==
    /\ locals.at = "load_config"
    /\ LET r1 == read_int(locals.in, 0)
           r2 == read_int(r1, 0)
           r3 == read_int(r2, 0)
           r4 == read_int(r3, 0)
           r5 == read_int(r4, 0)
           cfg == [vocab_size |-> r1.val, n_embd |-> r2.val, n_head |-> r3.val,
                   n_layer |-> r4.val, block_size |-> r5.val]
           valid == /\ cfg.vocab_size > 0 /\ cfg.vocab_size < 10000
                    /\ cfg.n_embd > 0 /\ cfg.n_embd < 10000
                    /\ cfg.n_head > 0 /\ cfg.n_head < 1000
                    /\ cfg.n_layer > 0 /\ cfg.n_layer < 1000
                    /\ cfg.block_size > 0 /\ cfg.block_size < 10000
                    /\ cfg.n_embd % cfg.n_head = 0
       IN  IF ~ndebug /\ ~valid THEN WeightsAbort("read")
           ELSE WeightsStatement("read",
                    [locals EXCEPT !.at = "load_tokenizer", !.in = r5,
                                   !.loaded.config = cfg])

\* uchars_size and its assert, uchars.resize and the read of the
\* characters, BOS and its assert; vocab_size is taken from config
LoadTokenizer ==
    /\ locals.at = "load_tokenizer"
    /\ LET r1 == read_int(locals.in, 0)
           uchars_size == r1.val
           r2 == read(r1, uchars_size)
           uchars == IF r2.fail THEN [i \in 1..uchars_size |-> 0]
                     ELSE [i \in 1..uchars_size |-> ByteChar(r2.bytes[i])]
           r3 == read_int(r2, 0)
           BOS_ == r3.val
       IN  IF ~ndebug /\ ~(uchars_size > 0 /\ uchars_size < 10000)
           THEN WeightsAbort("read")
           ELSE IF uchars_size < 0 THEN
               \* resize(size_t(uchars_size)) throws std::length_error
               /\ pc = "idle"
               /\ call' = [op |-> "read", args |-> <<>>]
               /\ err' = "length_error"
               /\ pc' = "terminated"
               /\ UNCHANGED <<mem, live, values, ndebug, budget, ret, locals>>
               /\ UNCHANGED BackwardVars
           ELSE IF ~ndebug /\ ~(BOS_ >= 0 /\ BOS_ < locals.loaded.config.vocab_size)
           THEN WeightsAbort("read")
           ELSE WeightsStatement("read",
                    [locals EXCEPT !.at = "load_model", !.in = r3,
                                   !.loaded.tokenizer =
                                       [uchars |-> uchars, BOS |-> BOS_,
                                        vocab_size |-> locals.loaded.config.vocab_size]])

\* GPT model(config); auto params = model.state_dict.get_all_params(): the
\* model of the loaded config, with the weights StateDict::init gives it
LoadModel ==
    /\ locals.at = "load_model"
    /\ pc = "idle"
    /\ LET base == Len(mem)
           params == get_all_params(StateDict)
       IN  /\ mem' = mem \o [p \in 1..NumParams |->
                               Value(IF p \in ZeroParams THEN Zero ELSE R(1, 4), <<>>, <<>>)]
           /\ live' = {base + p : p \in 1..NumParams}
           /\ locals' = [locals EXCEPT !.at = "load_params",
                                       !.loaded.params =
                                           [i \in 1..Len(params) |-> base + params[i]]]
    /\ call' = [op |-> "GPT", args |-> <<>>]
    /\ UNCHANGED <<values, ndebug, budget, ret, err, pc>>
    /\ UNCHANGED BackwardVars

\* the loop over params that reads p->data, and the return when the
\* stream has failed
LoadParams ==
    /\ locals.at = "load_params"
    /\ pc = "idle"
    /\ LET r == read_params(mem, locals.loaded.params, 1, locals.in)
       IN  /\ mem' = r.mem
           /\ locals' = [locals EXCEPT !.at = IF r.fail THEN "failed" ELSE "loaded",
                                       !.in = [r EXCEPT !.mem = <<>>]]
    /\ call' = [op |-> "read", args |-> <<>>]
    /\ UNCHANGED <<live, values, ndebug, budget, ret, err, pc>>
    /\ UNCHANGED BackwardVars

NextWeights ==
    \/ SaveOpen
    \/ SaveConfig
    \/ SaveTokenizer
    \/ SaveParams
    \/ LoadOpen
    \/ LoadConfig
    \/ LoadTokenizer
    \/ LoadModel
    \/ LoadParams

SpecWeights == InitWeights /\ [][NextWeights]_vars

(***************************************************************************)
(* SpecForward: a caller of GPT::forward that passes any token_id and      *)
(* pos_id, to the model of SpecTrain and to models whose n_embd is not     *)
(* divisible by n_head, with one ValueStorage and one pair of caches       *)
(***************************************************************************)
\* the number of forward calls of a run
MaxCalls == 2

\* configurations with n_embd not divisible by n_head
BadConfigs ==
    {[config EXCEPT !.n_embd = e, !.n_head = k] : e \in {1, 3}, k \in {0, 2}}

InitForward ==
    /\ mem = [p \in 1..NumParams |->
                 Value(IF p \in ZeroParams THEN Zero ELSE R(1, 2), <<>>, <<>>)]
    /\ live = 1..NumParams
    /\ values = <<>>
    /\ locals = [at |-> "caller",
                 calls |-> 0,
                 keys |-> [l \in 1..n_layer |-> <<>>],
                 values |-> [l \in 1..n_layer |-> <<>>],
                 logits |-> <<>>,
                 w |-> StateDict]
    /\ ndebug \in BOOLEAN
    /\ budget = 0
    /\ InitControl

\* the caller catches what the call throws; an abort or a trap ends the
\* process
ForwardReturn(args, h) ==
    /\ call' = [op |-> "forward", args |-> args]
    /\ mem' = h.mem
    /\ live' = h.live
    /\ values' = h.values
    /\ ret' = NULL
    /\ err' = h.err
    /\ pc' = IF h.err = "abort" THEN "aborted"
             ELSE IF h.err = "SIGFPE" THEN "crashed" ELSE pc
    /\ locals' = [locals EXCEPT !.calls = @ + 1, !.keys = h.keys, !.values = h.vals,
                                !.logits = h.vec]
    /\ UNCHANGED <<ndebug, budget>>
    /\ UNCHANGED BackwardVars

\* model.forward(token_id, pos_id, keys, values, storage)
ForwardCall ==
    /\ pc = "idle" /\ locals.calls < MaxCalls
    /\ \E token_id \in -1..vocab_size, pos_id \in -1..block_size :
          ForwardReturn(<<config, token_id, pos_id>>,
                        forward([Heap EXCEPT !.keys = locals.keys, !.vals = locals.values],
                                locals.w, token_id, pos_id))

\* the same call on a model whose n_embd is not divisible by n_head
ForwardBadConfig ==
    /\ pc = "idle" /\ locals.calls < MaxCalls
    /\ \E cfg \in BadConfigs, ub \in DivByZero,
           token_id \in 0..(vocab_size - 1), pos_id \in 0..(block_size - 1) :
          ForwardReturn(<<cfg, token_id, pos_id>>,
                        forward_entry([Heap EXCEPT !.keys = locals.keys,
                                                   !.vals = locals.values],
                                      cfg, token_id, pos_id, ub))

NextForward ==
    \/ ForwardCall
    \/ ForwardBadConfig

SpecForward == InitForward /\ [][NextForward]_vars

(***************************************************************************)
(* SpecMalformed: a caller that builds graphs the factories alone cannot   *)
(* build: besides constant and add it stores Values it has constructed     *)
(* itself, with any operands, and copy-assigns one stored Value to         *)
(* another; then it calls backward() on any node                           *)
(***************************************************************************)
\* bound on the work of one run of SpecMalformed: 3 nodes and 1 backward() call
MaxMalformed == 7

\* the operand lists of the Values the caller constructs
ChildLists == {<<a>> : a \in Ptrs \cup {NULL}} \cup {<<a, NULL>> : a \in Ptrs}

\* the implicit copy assignment of Value, as in the statement "*a = *b;"
assign(h, a, b) == [h EXCEPT !.mem[a] = h.mem[b], !.ret = NULL]

InitMalformed ==
    /\ mem = <<>>
    /\ live = {}
    /\ values = <<>>
    /\ locals = [at |-> "malformed"]
    /\ InitControl
    /\ ndebug \in BOOLEAN
    /\ budget = MaxMalformed

MalformedConstant == Building /\ Constant({One})
MalformedAdd      == Building /\ Add

MalformedStore ==
    /\ Building /\ pc = "idle" /\ Room(2)
    /\ \E ch \in ChildLists :
          Return("store", <<ch>>,
                 store(Heap, Value(One, ch, [i \in 1..Len(ch) |-> One])))

MalformedAssign ==
    /\ Building /\ pc = "idle"
    /\ \E a \in Ptrs, b \in Ptrs :
          /\ a # b
          /\ mem[a] # mem[b]
          /\ Return("assign", <<a, b>>, assign(Heap, a, b))

NextMalformed ==
    \/ MalformedConstant
    \/ MalformedAdd
    \/ MalformedStore
    \/ MalformedAssign
    \/ Backward
    \/ BackwardLoop
    \/ BackwardReturn

SpecMalformed == InitMalformed /\ [][NextMalformed]_vars

(***************************************************************************)
(* Properties                                                              *)
(***************************************************************************)
Node(p)      == mem[p]
Operands(p)  == {mem[p].children_[i] : i \in 1..Len(mem[p].children_)}
Position(p)  == CHOOSE i \in 1..Len(values) : values[i] = p
InArena(p)   == \E i \in 1..Len(values) : values[i] = p

\* C7: in every ValueStorage the factories have filled, each operand of each
\* node stands in the arena before the node itself, and no node reaches
\* itself through operands.
C7_OperandsCreatedBefore ==
    \A i \in 1..Len(values) :
        /\ \A c \in Operands(values[i]) :
              \E k \in 1..(i - 1) : values[k] = c
        /\ \A c \in Operands(values[i]) : values[i] \notin Reachable(mem, c)

SeqSet(q)   == {q[i] : i \in 1..Len(q)}
NoDup(q)    == \A i, j \in 1..Len(q) : q[i] = q[j] => i = j
IsLeaf(p)   == mem[p].children_ = <<>>
\* the nodes reachable from t that have p as an operand
Consumers(p, t) == {u \in Reachable(mem, t) : p \in Operands(u)}
\* the operand edges of the nodes reachable from t
EdgesFrom(t) ==
    UNION {{<<v, i>> : i \in 1..Len(mem[v].children_)} : v \in Reachable(mem, t)}

\* the grad g of c after the chain rule has been applied, in the order of q,
\* along the edges of q that end in c
RECURSIVE ChainRule(_, _, _)
ChainRule(g, q, c) ==
    IF q = <<>> THEN g
    ELSE LET v == q[1][1]
             i == q[1][2]
         IN  ChainRule(IF mem[v].children_[i] = c
                       THEN Plus(g, Times(mem[v].local_grads_[i], mem[v].grad))
                       ELSE g,
                       Tail(q), c)

\* the outer loop of the running backward() is through
LoopDone == pc = "backward" /\ idx > Len(topo)

\* C2: backward(terminal) puts each node reachable from terminal into topo
\* exactly once and propagates along each operand edge exactly once: the
\* edges propagated so far are those of the nodes processed so far, none
\* twice, and when the loop is through they are the edges of the reachable
\* nodes and the grad of every reachable node but the terminal is what it was
\* at the call plus, for each edge that ends in it, local gradient times the
\* final grad of the edge's source.
C2_EachNodeAndEdgeOnce ==
    pc = "backward" =>
        LET Rch == Reachable(mem, terminal)
        IN  /\ SeqSet(topo) = Rch
            /\ NoDup(topo)
            /\ NoDup(edges)
            /\ SeqSet(edges) = UNION {{<<v, i>> : i \in 1..Len(mem[v].children_)}
                                         : v \in SeqSet(trace)}
            /\ LoopDone =>
                  /\ SeqSet(trace) = Rch
                  /\ SeqSet(edges) = EdgesFrom(terminal)
                  /\ mem[terminal].grad = One
                  /\ \A c \in Rch \ {terminal} :
                        mem[c].grad = ChainRule(snap[c].grad, edges, c)

\* a and both of its consumers b and c feed the terminal d
Diamond(a, b, c, d) ==
    /\ Cardinality({a, b, c, d}) = 4
    /\ a \in Operands(b) /\ a \in Operands(c)
    /\ b \in Operands(d) /\ c \in Operands(d)

\* backward() has gone through a diamond
C2_Witness ==
    /\ LoopDone
    /\ \E a, b, c \in Ptrs : Diamond(a, b, c, terminal)

\* C3: in backward(), the loop processes the terminal first, processes a node
\* only after every reachable node that has it as an operand, and leaves the
\* grad of a node alone from the moment it processes it.
C3_Step ==
    (pc = "backward" /\ idx <= Len(topo) /\ idx' = idx + 1) =>
        LET v == topo[idx]
        IN  /\ idx = 1 => v = terminal
            /\ Consumers(v, terminal) \subseteq SeqSet(trace)
            /\ \A w \in SeqSet(trace) \cup {v} : mem'[w].grad = mem[w].grad

C3_ConsumersFirst == [][C3_Step]_vars

\* the loop has processed a node with two consumers
C3_Witness ==
    /\ pc = "backward"
    /\ \E k \in 1..Len(trace) : Cardinality(Consumers(trace[k], terminal)) >= 2

\* the latest two backward() calls that returned were on the same terminal
Twice ==
    /\ pc = "idle"
    /\ Len(history) >= 2
    /\ history[Len(history)] = history[Len(history) - 1]

DirectLeaf(p, t) ==
    /\ p # t
    /\ IsLeaf(p)
    /\ Consumers(p, t) = {t}
    /\ Cardinality({i \in 1..Len(mem[t].children_) : mem[t].children_[i] = p}) = 1

IsChain(t) ==
    /\ InArena(t)
    /\ LET k == Position(t)
       IN  /\ Reachable(mem, t) = {values[j] : j \in 1..k}
           /\ IsLeaf(values[1])
           /\ \A j \in 2..k : Operands(values[j]) = {values[j - 1]}

\* d(values[k]) / d(values[j]) along a chain
RECURSIVE SumSeq(_)
SumSeq(q) == IF q = <<>> THEN Zero ELSE Plus(q[1], SumSeq(Tail(q)))

RECURSIVE ChainGrad(_, _)
ChainGrad(j, k) ==
    IF j >= k THEN One
    ELSE Times(SumSeq(mem[values[j + 1]].local_grads_), ChainGrad(j + 1, k))

\* C8: a step that appends to the arena leaves every earlier element where
\* it was, alive and with its data, grad, operands and local gradients; no
\* step changes data, operands or local gradients; and after the first
\* backward(), called on the end of a chain of two or more nodes, the chain's
\* first node holds the constant it was created with as data and
\* d(end)/d(first) as grad.
C8_Step ==
    /\ \A i \in 1..Len(values) :
          /\ i <= Len(values')
          /\ values'[i] = values[i]
          /\ values[i] \in live'
          /\ mem'[values[i]].data = mem[values[i]].data
          /\ mem'[values[i]].children_ = mem[values[i]].children_
          /\ mem'[values[i]].local_grads_ = mem[values[i]].local_grads_
          /\ Len(values') > Len(values) => mem'[values[i]].grad = mem[values[i]].grad
    /\ (pc = "idle" /\ Len(history) = 1 /\ IsChain(terminal) /\ values[1] # terminal) =>
          /\ mem[values[1]].data \in GraphData
          /\ mem[values[1]].grad = ChainGrad(1, Position(terminal))

C8_EarlierNodesStay == [][C8_Step]_vars

\* backward() has returned from the end of a chain of four nodes
C8_Witness ==
    /\ pc = "idle"
    /\ Len(history) = 1
    /\ IsChain(terminal)
    /\ Position(terminal) >= 4
    /\ mem[values[1]].grad # Zero

\* backward() has returned in the test whose result has the operands ops
TestDone(ops) ==
    /\ pc = "idle"
    /\ Len(history) = 1
    /\ terminal = values[Len(values)]
    /\ mem[terminal].children_ = ops

\* C4: after c = mul(a, a) on a leaf a with grad 0 and one c.backward(),
\* a.grad is 2 * a.data.
C4_SquareGrad ==
    (Len(values) = 2 /\ TestDone(<<values[1], values[1]>>)) =>
        /\ snap[values[1]].grad = Zero
        /\ mem[values[1]].grad = Times(R(2, 1), mem[values[1]].data)

\* the square test is through on a leaf other than 0
C4_Witness ==
    /\ Len(values) = 2 /\ TestDone(<<values[1], values[1]>>)
    /\ mem[values[1]].data \notin {Zero, PosInf, NegInf, NaN}
    /\ mem[values[1]].grad = Times(R(2, 1), mem[values[1]].data)

\* C5 as stated: after d = mul(add(a, b), sub(a, b)) on leaves a and b with
\* grad 0 and one d.backward(), a.grad is 2 * a.data and b.grad is
\* -2 * b.data.
C5_DiamondGrad ==
    (Len(values) = 6 /\ TestDone(<<values[3], values[5]>>)) =>
        /\ mem[values[1]].grad = Times(R(2, 1), mem[values[1]].data)
        /\ mem[values[2]].grad = Times(R(-2, 1), mem[values[2]].data)

\* x + y without rounding, for finite x and y
ExactPlus(x, y) == R(x.n * y.d + y.n * x.d, x.d * y.d)

\* C5, amended: after that test, with s the data of the add node and t the
\* data of the sub node, a.grad is the double t + s and b.grad the double
\* t - s; they are 2 * a.data and -2 * b.data when s is a + b and t is a - b
\* without rounding.
C5_DiamondGradRounded ==
    (Len(values) = 6 /\ TestDone(<<values[3], values[5]>>)) =>
        LET a == mem[values[1]].data
            b == mem[values[2]].data
            s == mem[values[3]].data
            t == mem[values[5]].data
        IN  /\ snap[values[1]].grad = Zero
            /\ snap[values[2]].grad = Zero
            /\ mem[values[1]].grad = Plus(t, s)
            /\ mem[values[2]].grad = Plus(t, Minus(s))
            /\ (s = ExactPlus(a, b) /\ t = ExactPlus(a, Minus(b))) =>
                  /\ mem[values[1]].grad = Times(R(2, 1), a)
                  /\ mem[values[2]].grad = Times(R(-2, 1), b)

\* the diamond test is through on leaves, neither 0, whose sum and
\* difference need no rounding
C5_Witness ==
    /\ Len(values) = 6 /\ TestDone(<<values[3], values[5]>>)
    /\ mem[values[1]].data # Zero /\ mem[values[2]].data # Zero
    /\ mem[values[3]].children_ = <<values[1], values[2]>>
    /\ mem[values[5]].children_ = <<values[1], values[4]>>
    /\ mem[values[4]].children_ = <<values[2]>>
    /\ mem[values[3]].data = ExactPlus(mem[values[1]].data, mem[values[2]].data)
    /\ mem[values[5]].data = ExactPlus(mem[values[1]].data, Minus(mem[values[2]].data))
    /\ mem[values[3]].data # mem[values[5]].data
    /\ mem[values[2]].grad = Times(R(-2, 1), mem[values[2]].data)

\* the call of this step throws std::domain_error and leaves the arena and
\* every object as they were
Rejected ==
    /\ err' = "domain_error"
    /\ ret' = NULL
    /\ values' = values
    /\ mem' = mem
    /\ live' = live

\* C10: log(a) with a.data <= 0, div(a, b) with |b.data| or |b| below
\* epsilon, and pow(a, k) with a.data < 0 and a non-integer k throw
\* std::domain_error and leave the ValueStorage with the nodes it had.
C10_Step ==
    /\ \A a \in Ptrs :
          (call' = [op |-> "log", args |-> <<a>>] /\ Le(mem[a].data, Zero))
              => Rejected
    /\ \A a, b \in Ptrs :
          (call' = [op |-> "div", args |-> <<a, b>>]
              /\ Lt(fabs(mem[b].data), DBL_EPSILON)) => Rejected
    /\ \A a \in Ptrs, b \in FactoryDivisors :
          (call' = [op |-> "div_d", args |-> <<a, b>>]
              /\ Lt(fabs(b), DBL_EPSILON)) => Rejected
    /\ \A a \in Ptrs, k \in FactoryExps :
          (call' = [op |-> "pow", args |-> <<a, k>>]
              /\ Lt(mem[a].data, Zero) /\ NonInteger(k)) => Rejected

C10_DomainErrorsStoreNothing == [][C10_Step]_vars

\* log of a node that is not positive has thrown, with two nodes stored
C10_Witness ==
    /\ call.op = "log"
    /\ err = "domain_error"
    /\ Len(values) >= 2
    /\ Le(mem[call.args[1]].data, Zero)

\* div by a node that is nonzero and below epsilon has thrown
C10_WitnessDiv ==
    /\ call.op = "div"
    /\ err = "domain_error"
    /\ mem[call.args[2]].data # Zero

\* pow of a negative node to a non-integer exponent has thrown
C10_WitnessPow ==
    /\ call.op = "pow"
    /\ err = "domain_error"
    /\ Lt(mem[call.args[1]].data, Zero)

\* a composite has stored its intermediate node and the node that uses it
C7_Witness ==
    /\ call.op \in {"sub", "div"}
    /\ err = "none"
    /\ Len(values) >= 3
    /\ Operands(ret) = {call.args[1], ret - 1}

\* the objects the latest call has created
Created == (locals.base + 1)..Len(mem)

\* C9: every object a factory, softmax, rmsnorm or linear creates, the
\* negation of sub and the reciprocal of div included, is an element of the
\* arena it was called on, and each operand of such a node is a node the
\* same call created or one of the arguments of the call; no object exists
\* besides the caller's weights and the elements of the arena
C9_CreatedNodesInArena ==
    /\ \A p \in 1..Len(mem) : p \in Params \cup Ptrs
    /\ Ptrs \subseteq live
    /\ call.op \in {"constant", "softmax", "rmsnorm", "linear", "sub", "div"} =>
           \A p \in Created :
               /\ p \in Ptrs
               /\ Operands(p) \subseteq
                      Created \cup SeqSet(call.args)
                          \cup (IF call.op = "linear" THEN Params ELSE {})

\* softmax has returned the probabilities of the output of linear
C9_Witness ==
    /\ call.op = "softmax" /\ err = "none" /\ pc = "idle"
    /\ locals.at = "layers" /\ locals.calls = 2
    /\ Cardinality(Created) = 6 * LayerWidth + 1
    /\ \E p \in Ptrs : Operands(p) \cap Params # {}
    /\ \E p \in Created : mem[p].children_ # <<>> /\ mem[p].local_grads_ = <<Minus(One)>>

\* C1: when the training loop calls backward() on the loss, every object
\* reachable from the loss through operand pointers, and so every operand of
\* every reachable node, is within its lifetime: an element of the storage
\* of the step or a parameter of the model
C1_OperandsAliveAtBackward ==
    (Training /\ locals.at = "backward" /\ call.op # "backward") =>
        \A v \in TrainReads :
            /\ v \in live
            /\ v \in Ptrs \cup (1..NumParams)
            /\ Operands(v) \subseteq live

\* C11: a factory call that leaves with std::overflow_error, the composites
\* sub and div included, leaves the ValueStorage with exactly the nodes it
\* had before the call
C11_OverflowStoresNothing ==
    [][err' = "overflow_error" => Len(values') = Len(values)]_vars

\* C12: when the sum add(a, b) or the product mul(a, b) of two nodes is
\* beyond the finite doubles, in either direction, the call leaves with an
\* exception and stores no node; no element of the arena ever has data that
\* is not finite
C12_Step ==
    /\ \A a, b \in Ptrs :
          (/\ call' = [op |-> "add", args |-> <<a, b>>]
           /\ isfinite(mem[a].data) /\ isfinite(mem[b].data)
           /\ ~isfinite(Plus(mem[a].data, mem[b].data)))
              => (err' \notin {"none", "abort"} /\ values' = values)
    /\ \A a, b \in Ptrs :
          (/\ call' = [op |-> "mul", args |-> <<a, b>>]
           /\ isfinite(mem[a].data) /\ isfinite(mem[b].data)
           /\ ~isfinite(Times(mem[a].data, mem[b].data)))
              => (err' \notin {"none", "abort"} /\ values' = values)
    /\ \A i \in 1..Len(values') : isfinite(mem'[values'[i]].data)

C12_OverflowRejected == [][C12_Step]_vars

\* some node that t reaches in m reaches itself through operands
CycleReachable(m, t) ==
    \E v \in Reachable(m, t) :
        \E i \in 1..Len(m[v].children_) :
            m[v].children_[i] # NULL /\ v \in Reachable(m, m[v].children_[i])

\* C13: a backward() call on a terminal from which a reference cycle is
\* reachable does not return normally
C13_Step ==
    (pc = "backward" /\ pc' = "idle" /\ err' = "none") => ~CycleReachable(snap, terminal)

C13_CycleRejected == [][C13_Step]_vars

\* C14: a backward() call on a terminal that reaches more nodes than the
\* bound of build_topo leaves with std::runtime_error, whatever the shape of
\* the graph
C14_Step ==
    \A t \in Ptrs :
        (/\ pc = "idle"
         /\ call' = [op |-> "backward", args |-> <<t>>]
         /\ terminal' = t
         /\ Cardinality(Reachable(mem, t)) > TopoLimit)
            => err' = "runtime_error"

C14_OversizedRejected == [][C14_Step]_vars

\* some node that t reaches in m has a null operand
NullReachable(m, t) ==
    \E v \in Reachable(m, t) : \E i \in 1..Len(m[v].children_) : m[v].children_[i] = NULL

\* C15: a backward() call on a terminal that reaches a node with a null
\* operand leaves with std::runtime_error before it writes any grad: the
\* grad of every node, the terminal included, is what it was before the call
C15_Step ==
    \A t \in Ptrs :
        (/\ pc = "idle"
         /\ call' = [op |-> "backward", args |-> <<t>>]
         /\ NullReachable(mem, t))
            => (err' = "runtime_error" /\ pc' = "idle" /\ mem' = mem)

C15_NullOperandRejected == [][C15_Step]_vars

\* backward() has thrown on a terminal whose only operand has a null
\* operand, and the grad of the terminal is the 0 it was
C15_Witness ==
    /\ call.op = "backward" /\ err = "runtime_error" /\ pc = "idle"
    /\ \E v \in Reachable(mem, terminal) \ {terminal} : NullReachable(mem, v)
    /\ Cardinality(Reachable(mem, terminal)) = 2
    /\ NULL \notin SeqSet(mem[terminal].children_)
    /\ mem[terminal].grad = Zero
    /\ mem = snap

\* the latest backward() call has returned normally and has processed every
\* node the terminal reaches, along every operand edge
BackwardDone ==
    /\ pc = "idle" /\ err = "none"
    /\ SeqSet(trace) = Reachable(mem, terminal)
    /\ SeqSet(edges) = EdgesFrom(terminal)

\* C16: on the graphs the factories build, which are finite and acyclic, a
\* backward() call ends in no other way than by returning normally, and at
\* its return every node reachable from the terminal has propagated its
\* grad to all of its operands
C16_BackwardReturnsNormally ==
    (call.op = "backward" /\ pc # "backward") => BackwardDone

\* the number of operands of the node a factory returns
Arity(op) ==
    IF op = "constant" THEN 0
    ELSE IF op \in {"add", "mul", "sub", "div"} THEN 2
    ELSE 1

\* C17: every node of a ValueStorage has as many local gradients as
\* operands, and the node a factory has returned has 0 operands for
\* constant, 2 for add, mul, sub and div of two nodes, and 1 for the scalar
\* overloads, neg, pow, log, exp and relu
C17_GradsMatchOperands ==
    /\ \A i \in 1..Len(values) :
          Len(mem[values[i]].local_grads_) = Len(mem[values[i]].children_)
    /\ ret # NULL =>
          /\ Len(mem[ret].children_) = Arity(call.op)
          /\ Len(mem[ret].local_grads_) = Arity(call.op)

\* the arena holds a node without operands, one with one and one with two
C17_Witness ==
    /\ \A k \in 0..2 : \E i \in 1..Len(values) : Len(mem[values[i]].children_) = k
    /\ ret # NULL /\ call.op \in {"sub", "div"}

\* the arguments of the call of this step are not valid: token_id or pos_id
\* out of range, or n_embd not divisible by n_head
BadArguments ==
    LET cfg      == call'.args[1]
        token_id == call'.args[2]
        pos_id   == call'.args[3]
    IN  \/ token_id < 0 \/ token_id >= cfg.vocab_size
        \/ pos_id < 0 \/ pos_id >= cfg.block_size
        \/ cfg.n_head = 0
        \/ cfg.n_embd % cfg.n_head # 0

\* C20: a call of GPT::forward with a token_id outside [0, vocab_size), a
\* pos_id outside [0, block_size) or an n_embd that n_head does not divide
\* fails, and leaves the ValueStorage, every object and both caches as they
\* were
C20_Step ==
    (locals'.calls = locals.calls + 1 /\ BadArguments) =>
        /\ err' # "none"
        /\ values' = values /\ mem' = mem /\ live' = live
        /\ locals'.keys = locals.keys /\ locals'.values = locals.values

C20_BadArgumentsTouchNothing == [][C20_Step]_vars

\* a forward call with a bad pos_id has thrown after a call that filled the
\* arena and the caches
C20_Witness ==
    /\ locals.at = "caller" /\ locals.calls = 2
    /\ err = "out_of_range"
    /\ call.args[2] \in 0..(vocab_size - 1)
    /\ values # <<>>
    /\ locals.keys[1] # <<>>

\* a forward call on a model with n_embd = 3 and n_head = 2 has thrown
C20_WitnessConfig ==
    /\ locals.at = "caller" /\ locals.calls = 2
    /\ err = "invalid_argument"
    /\ call.args[1].n_embd = 3 /\ call.args[1].n_head = 2
    /\ values # <<>>

(***************************************************************************)
(* C18, C19: the training loop and the parameters                          *)
(***************************************************************************)
\* the parameters handed to the optimizer
SmallParams == {locals.main.params[i] : i \in 1..Len(locals.main.params)}

\* loss->backward() of the current step has been called and optimizer.step
\* has not run yet
SmallInBackward == locals.at = "backward" /\ call.op = "backward"

\* C18: in the training loop every parameter's grad is 0 except between the
\* call of loss->backward() and the optimizer.step that follows it, so it is
\* 0 at the start of each step and after each Adam::step; the grads were 0
\* when backward() was called, and when the optimizer reads them exactly one
\* backward() call per step so far has returned, the one of this step.
C18_GradsZeroedEachStep ==
    /\ ~SmallInBackward => \A p \in SmallParams : mem[p].grad = Zero
    /\ SmallInBackward =>
           /\ \A p \in SmallParams : snap[p].grad = Zero
           /\ Len(history) = locals.main.step
                                 + (IF pc = "idle" /\ err = "none" THEN 1 ELSE 0)

\* the second Adam::step has read grads that backward() accumulated and has
\* left every grad 0
C18_Witness ==
    /\ locals.at = "end"
    /\ locals.main.step = 1
    /\ call.op = "step"
    /\ \E p \in SmallParams : trace # <<>> /\ snap[p].grad = Zero
    /\ \E i \in 1..Len(locals.main.params) : locals.main.optimizer.m[i] # Zero
    /\ \A p \in SmallParams : mem[p].grad = Zero

\* C19: no step of the training loop other than optimizer.step changes the
\* data of a parameter; every step leaves the parameters allocated and
\* leaves get_all_params with the same nodes in the same order.
C19_Step ==
    /\ get_all_params(locals'.w) = get_all_params(locals.w)
    /\ locals'.main.params = locals.main.params
    /\ locals.main.params = get_all_params(locals.w)
    /\ \A p \in SmallParams : p \in live /\ p \in live'
    /\ ~(locals.at = "backward" /\ locals'.at = "end") =>
           \A p \in SmallParams : mem'[p].data = mem[p].data

C19_ParamsWrittenOnlyByAdam == [][C19_Step]_vars

\* Adam::step has written a parameter, and in the step after it the forward
\* pass has run and the loop of backward() is running
C19_Witness ==
    /\ locals.main.step = 1
    /\ pc = "backward"
    /\ idx > Len(locals.losses)
    /\ \E p \in SmallParams : mem[p].data \notin TrainWeights \cup {Zero}
    /\ \E p \in SmallParams : mem[p].grad # Zero

(***************************************************************************)
(* C26: the seed of backward()                                             *)
(***************************************************************************)
\* C26: when backward() has returned on a graph built by the factories
\* (acyclic), the grad of the terminal is 1, whatever it was at the call.
C26_SeedAssigned ==
    (call.op = "backward" /\ pc = "idle" /\ err = "none") => mem[terminal].grad = One

\* backward() has returned on a terminal whose grad at the call was neither
\* 0 nor 1
C26_Witness ==
    /\ call.op = "backward" /\ pc = "idle" /\ err = "none"
    /\ snap[terminal].grad \notin {Zero, One}
    /\ mem[terminal].grad = One
    /\ mem[terminal].children_ # <<>>

(***************************************************************************)
(* C29: what backward() writes                                             *)
(***************************************************************************)
\* C29: a step of backward(terminal) (the call, an iteration of its loop,
\* the return) leaves the arena and every node's data, operands and local
\* gradients as they were, and changes the grad of no node that is not
\* reachable from terminal.
C29_Step ==
    call'.op = "backward" =>
        /\ Len(mem') = Len(mem)
        /\ live' = live
        /\ values' = values
        /\ \A a \in 1..Len(mem) :
               /\ mem'[a].data = mem[a].data
               /\ mem'[a].children_ = mem[a].children_
               /\ mem'[a].local_grads_ = mem[a].local_grads_
               /\ a \notin Reachable(mem, terminal') => mem'[a].grad = mem[a].grad

C29_BackwardWritesGradsOnly == [][C29_Step]_vars

\* backward() has returned: it changed the grad of an operand, and a node
\* out of its reach holds the grad an earlier call gave it
C29_Witness ==
    /\ call.op = "backward" /\ pc = "idle" /\ err = "none"
    /\ \E a \in 1..Len(mem) :
           a \notin Reachable(mem, terminal) /\ mem[a].grad # Zero /\ mem[a].grad = snap[a].grad
    /\ \E b \in Reachable(mem, terminal) \ {terminal} : mem[b].grad # snap[b].grad

(***************************************************************************)
(* C23: a sum built with operator+ and stored                              *)
(***************************************************************************)
\* the statement that stored the sum has returned normally
C23_SumStored == call'.op = "operator+" /\ err' = "none"

\* the node stored by storage.store(*a + *b) has the operands a and b, both
\* elements of the arena, with the local gradients 1 and 1
C23_Operands ==
    C23_SumStored =>
        /\ ret' = values'[Len(values')]
        /\ mem'[ret'].children_ = call'.args
        /\ mem'[ret'].local_grads_ = <<One, One>>
        /\ \A i \in 1..2 : call'.args[i] \in Ptrs /\ call'.args[i] \in live'

\* backward() on a stored sum is through
C23_Returned == call.op = "backward" /\ pc # "backward"

C24_SameOutcome(f, o) ==
    /\ (f.err = "none") = (o.err = "none")
    /\ (f.err = "none" /\ o.err = "none") =>
           /\ f.mem[f.ret].data = o.mem[o.ret].data
           /\ f.mem[f.ret].local_grads_ = o.mem[o.ret].local_grads_

C24_Step ==
    LET a == call'.args[1]
        b == call'.args[2]
    IN  /\ call'.op = "add" => C24_SameOutcome(add(Heap, a, b), operator_add(Heap, a, b))
        /\ call'.op = "mul" => C24_SameOutcome(mul(Heap, a, b), operator_mul(Heap, a, b))
        /\ call'.op = "neg" => C24_SameOutcome(neg(Heap, a), operator_neg(Heap, a))
        /\ call'.op = "div" => C24_SameOutcome(div(Heap, a, b), operator_div(Heap, a, b))
        /\ call'.op = "pow" => C24_SameOutcome(pow(Heap, a, b), Value_pow(Heap, a, b))
        /\ call'.op = "log" => C24_SameOutcome(log(Heap, a), Value_log(Heap, a))

\* C24: every call of a factory accepts its operands exactly when the
\* deprecated operator it supersedes accepts them, and then yields the same
\* data and local gradients.
C24_FactoriesMatchOperators == [][C24_Step]_vars

(***************************************************************************)
(* C22: the forward values and local gradients of the factories            *)
(***************************************************************************)
\* y is plus or minus a power of two: 1 / y and x / y^2 are rounded once
C22_PowerOfTwo(y) ==
    /\ isfinite(y)
    /\ \E k \in 0..10 : (Abs(y.n) = 2 ^ k /\ y.d = 1) \/ (Abs(y.n) = 1 /\ y.d = 2 ^ k)

\* the node one returning call of add, mul, neg, sub, pow, div or relu has
\* created, against the table of forward values and partial derivatives
C22_Step ==
    LET n == mem'[ret']
        a == call'.args[1]
        b == call'.args[2]
        x == mem[a].data
        y == mem[b].data
    IN  err' = "none" =>
        /\ call'.op = "add" =>
               /\ n.data = Plus(x, y)
               /\ n.children_ = <<a, b>> /\ n.local_grads_ = <<One, One>>
        /\ call'.op = "mul" =>
               /\ n.data = Times(x, y)
               /\ n.children_ = <<a, b>> /\ n.local_grads_ = <<y, x>>
        /\ call'.op = "neg" =>
               /\ n.data = Minus(x)
               /\ n.children_ = <<a>> /\ n.local_grads_ = <<Minus(One)>>
        /\ call'.op = "sub" =>
               /\ n.data = Plus(x, Minus(y))
               /\ n.children_[1] = a /\ n.local_grads_[1] = One
               /\ mem'[n.children_[2]].children_ = <<b>>
               /\ Times(n.local_grads_[2], mem'[n.children_[2]].local_grads_[1]) = Minus(One)
        /\ call'.op = "pow" =>
               /\ n.data = std_pow(x, b)
               /\ n.children_ = <<a>>
               /\ n.local_grads_ = <<Times(b, std_pow(x, Plus(b, Minus(One))))>>
        /\ call'.op = "div" =>
               LET p == mem'[n.children_[2]]
                   to_b == Times(n.local_grads_[2], p.local_grads_[1])
               IN  /\ n.children_[1] = a /\ p.children_ = <<b>>
                   /\ n.data = Times(x, p.data)
                   /\ n.local_grads_[1] = p.data
                   /\ to_b = Times(x, Times(Minus(One), std_pow(y, R(-2, 1))))
                   /\ (C22_PowerOfTwo(y) /\ isfinite(x) /\ isfinite(to_b)) =>
                          /\ n.data = Over(x, y)
                          /\ n.local_grads_[1] = Over(One, y)
                          /\ to_b = Minus(Over(x, Times(y, y)))
        /\ call'.op = "relu" =>
               /\ n.data = (IF Gt(x, Zero) THEN x ELSE Zero)
               /\ n.children_ = <<a>>
               /\ n.local_grads_ = <<IF Gt(x, Zero) THEN One ELSE Zero>>

C30_Seen == {locals.tokenizer.uchars[i] : i \in 1..Len(locals.tokenizer.uchars)}

\* C30: for a fitted Tokenizer, BOS == vocab_size - 1; the result of encode
\* starts and ends with BOS and every token of it lies in [0, vocab_size);
\* and decode(encode(text)) == text for a text made of characters seen in
\* fit.
C30_RoundTrip ==
    /\ locals.at \in {"encode", "decode", "decoded"} =>
           locals.tokenizer.BOS = locals.tokenizer.vocab_size - 1
    /\ locals.at \in {"decode", "decoded"} =>
           /\ Len(locals.tokens) >= 2
           /\ locals.tokens[1] = locals.tokenizer.BOS
           /\ locals.tokens[Len(locals.tokens)] = locals.tokenizer.BOS
           /\ \A i \in 1..Len(locals.tokens) :
                  locals.tokens[i] >= 0 /\ locals.tokens[i] < locals.tokenizer.vocab_size
    /\ (locals.at = "decoded" /\ \A i \in 1..Len(locals.text) : locals.text[i] \in C30_Seen)
           => locals.decoded = locals.text

\* a text of two different seen characters, the greater first, has been
\* encoded and decoded by a tokenizer that has seen three
C30_Witness ==
    /\ locals.at = "decoded"
    /\ Len(locals.tokenizer.uchars) = 3
    /\ Len(locals.text) = 2
    /\ locals.text[1] > locals.text[2]
    /\ locals.decoded = locals.text
    /\ Len(locals.tokens) = 4


(***************************************************************************)
(* C28: for any max_length >= 0 a call of GPT::generate ends: it returns,  *)
(* or an exception leaves it.  The vector it returns has at most           *)
(* min(max_length, block_size) tokens and none of them is start_token;     *)
(* every sampled token other than start_token is appended, the first       *)
(* sampled start_token ends the loop with tokens as they are, and every    *)
(* call of forward has 0 <= pos_id < block_size.                           *)
(***************************************************************************)
\* the call has returned, or an exception or a failed assert has left it
GenerateDone == locals.at = "returned" \/ err # "none"

C28_Returned ==
    locals.at = "returned" =>
        /\ Len(locals.tokens) <= Min(locals.max_length, block_size)
        /\ \A i \in 1..Len(locals.tokens) : locals.tokens[i] # locals.start_token

C28_Step ==
    /\ locals.at = "for" /\ call'.op = "forward" =>
           /\ call'.args[2] = locals.pos_id
           /\ 0 <= call'.args[2] /\ call'.args[2] < block_size
    /\ locals.at = "sample" /\ err' = "none" =>
           IF call'.args[1] = locals.start_token
           THEN locals'.at = "return" /\ locals'.tokens = locals.tokens
           ELSE /\ locals'.at = "for"
                /\ locals'.tokens = Append(locals.tokens, call'.args[1])
    /\ locals.at = "return" => locals'.at = "returned" /\ locals'.tokens = locals.tokens

C28_GenerateBounded ==
    /\ [](C28_Returned)
    /\ [][C28_Step]_vars
    /\ (locals.max_length >= 0 => <>GenerateDone)

\* a call with max_length above block_size has returned block_size tokens
C28_Witness ==
    /\ locals.at = "returned"
    /\ locals.max_length > block_size
    /\ Len(locals.tokens) = block_size


(***************************************************************************)
(* C27: generate calls forward with pos_id = 0, 1, 2, ... on caches that   *)
(* start empty.  The call for position p leaves the earlier entries of     *)
(* every layer's key cache and value cache as they were and adds one, so   *)
(* that each holds p + 1 entries, and the attention of the call reads      *)
(* exactly these: every element of every cached key is the second operand  *)
(* of a product q_h[j] * k_h[t][j] created by the call, every element of   *)
(* every cached value the second operand of a product                      *)
(* attn_weights[t] * v_h[t][j].  A later position is not in the caches.    *)
(***************************************************************************)
\* the nodes the step has added to the storage
C27_NewNodes == {values'[i] : i \in (Len(values) + 1)..Len(values')}

\* the entries of a cache of the state after the step whose elements are
\* all second operands of products the step has created
C27_Attended(cache) ==
    {t \in 1..Len(cache) :
        \A j \in 1..Len(cache[t]) :
            \E n \in C27_NewNodes :
                /\ Len(mem'[n].children_) = 2
                /\ mem'[n].children_[2] = cache[t][j]}

C27_Step ==
    locals.at = "for" /\ call'.op = "forward" /\ err' = "none" =>
        \A l \in 1..n_layer :
            LET p == locals.pos_id
            IN  /\ Len(locals.keys[l]) = p /\ Len(locals.values[l]) = p
                /\ Len(locals'.keys[l]) = p + 1 /\ Len(locals'.values[l]) = p + 1
                /\ SubSeq(locals'.keys[l], 1, p) = locals.keys[l]
                /\ SubSeq(locals'.values[l], 1, p) = locals.values[l]
                /\ C27_Attended(locals'.keys[l]) = 1..(p + 1)
                /\ C27_Attended(locals'.values[l]) = 1..(p + 1)

C27_AttentionOverCache == [][C27_Step]_vars

\* forward has returned from the call for position 1
C27_Witness ==
    /\ call.op = "forward" /\ err = "none"
    /\ locals.at = "scale" /\ locals.pos_id = 1
    /\ \A l \in 1..n_layer : Len(locals.keys[l]) = 2 /\ Len(locals.values[l]) = 2


(***************************************************************************)
(* C21: every training step begins with a fresh ValueStorage; its forward  *)
(* calls all precede its one backward() call, which is made on the loss;   *)
(* that call has returned when the one Adam::step of the step is made; and *)
(* then the storage is destroyed, after which no object that is alive and  *)
(* no variable in scope refers to a node of it.  generate() makes no       *)
(* backward() call.                                                        *)
(***************************************************************************)
\* the pointers a cache of one layer holds
C21_Cached(cache) ==
    UNION {{cache[t][i] : i \in 1..Len(cache[t])} : t \in 1..Len(cache)}

\* the pointers held by the variables in scope
C21_InScope ==
    IF locals.at \in {"done", "returned"} THEN {}
    ELSE {locals.logits[i] : i \in 1..Len(locals.logits)}
             \cup {locals.probs[i] : i \in 1..Len(locals.probs)}
             \cup UNION {C21_Cached(locals.keys[l]) : l \in 1..n_layer}
             \cup UNION {C21_Cached(locals.values[l]) : l \in 1..n_layer}
             \cup (IF "losses" \in DOMAIN locals
                   THEN {locals.losses[i] : i \in 1..Len(locals.losses)}
                            \cup ({locals.loss, locals.n_val} \ {NULL})
                   ELSE {locals.scaled_logits[i] : i \in 1..Len(locals.scaled_logits)})

\* nothing refers to an object that has been destroyed
C21_NoneDangling ==
    /\ C21_InScope \subseteq live
    /\ \A p \in live : \A i \in 1..Len(mem[p].children_) : mem[p].children_[i] \in live
    /\ \A i \in 1..Len(locals.main.params) : locals.main.params[i] \in live \ Ptrs

\* a step of the training loop is running
C21_InStep == "losses" \in DOMAIN locals /\ locals.at # "done"

C21_State ==
    /\ C21_NoneDangling
    \* the step starts with an empty storage, and with every backward() call
    \* and Adam::step of the earlier steps made
    /\ C21_InStep /\ locals.at = "forward" /\ locals.pos_id = 0 =>
           /\ values = <<>> /\ live = 1..NumParams
           /\ Len(history) = locals.main.step
           /\ locals.main.optimizer.step_count = locals.main.step
    \* generate runs after the last step and makes no backward() call
    /\ ~C21_InStep =>
           /\ Len(history) = num_steps
           /\ locals.main.optimizer.step_count = num_steps
           /\ pc # "backward"

C21_Step ==
    \* a forward call of a step: backward() has not been called in the step
    /\ C21_InStep /\ call'.op = "forward" =>
           /\ Len(history) = locals.main.step
           /\ call.op # "backward"
    \* the backward() call: on the loss, after the last forward call
    /\ C21_InStep /\ pc = "idle" /\ pc' = "backward" =>
           /\ terminal' = locals.loss
           /\ locals.pos_id = locals.n
           /\ Len(history) = locals.main.step
    \* Adam::step: the first of the step, after its backward() has returned
    /\ call'.op = "step" =>
           /\ C21_InStep
           /\ history = Append(SubSeq(history, 1, locals.main.step), locals.loss)
           /\ locals.main.optimizer.step_count = locals.main.step
           /\ locals'.main.optimizer.step_count = locals.main.step + 1
    \* the end of the step: Adam::step was the last call, and the storage
    \* is destroyed
    /\ call'.op = "~ValueStorage" =>
           /\ call.op = "step"
           /\ values' = <<>> /\ live' = 1..NumParams
    \* the steps of generate leave the record of the backward() calls alone
    /\ ~C21_InStep => history' = history /\ pc' # "backward"

C21_StorageLifecycle == [](C21_State) /\ [][C21_Step]_vars

\* the second step has ended and its storage is destroyed, and generate
\* has returned tokens
C21_Witness ==
    /\ locals.at = "returned"
    /\ locals.tokens # <<>>
    /\ Len(history) = num_steps
    /\ values = <<>>


(***************************************************************************)
(* C25: when train.cpp has written its file, infer.cpp reads it to the     *)
(* end without a failed assert or read: the config it has read equals      *)
(* the config saved, so do the characters and BOS of the tokenizer, and    *)
(* the i-th parameter in get_all_params order of the model it has          *)
(* constructed gets the data the i-th parameter had when it was saved.     *)
(***************************************************************************)
C25_RoundTrip ==
    /\ locals.exists => locals.at # "failed" /\ err = "none"
    /\ locals.at \in {"load_tokenizer", "load_model", "load_params", "loaded"} =>
           locals.loaded.config = locals.config
    /\ locals.at \in {"load_model", "load_params", "loaded"} =>
           /\ locals.loaded.tokenizer.uchars = locals.tokenizer.uchars
           /\ locals.loaded.tokenizer.BOS = locals.tokenizer.BOS
    /\ locals.at = "loaded" =>
           /\ Len(locals.loaded.params) = Len(locals.params)
           /\ \A i \in 1..Len(locals.params) :
                  /\ locals.loaded.params[i] # locals.params[i]
                  /\ mem[locals.loaded.params[i]].data = mem[locals.params[i]].data

\* infer.cpp has loaded a file that holds a negative character, a negative
\* weight and the largest double
C25_Witness ==
    /\ locals.at = "loaded"
    /\ locals.in.pos = Len(locals.file)
    /\ locals.tokenizer.uchars = <<-1>>
    /\ \E i \in 1..Len(locals.params) : mem[locals.loaded.params[i]].data = DBL_MAX
    /\ \E i \in 1..Len(locals.params) : Lt(mem[locals.loaded.params[i]].data, Zero)

====
